---- MODULE Spec2Model ----
(***************************************************************************)
(* The text-enrichment pipeline of deepseek_enrich_words.py: main (the     *)
(* resumable batch pipeline), call_with_retries, count_existing_rows and   *)
(* rewrite_first_rows, over a model of the output file that keeps Python's *)
(* write buffering (rows written through csv.writer reach the disk only    *)
(* when the buffer spills or the handle is closed).                        *)
(***************************************************************************)
EXTENDS Integers, Sequences, FiniteSets, TLC

(* ---------------------------------------------------------------- bounds *)
MaxRows == 5
MaxBatch == 2
MaxLimit == 2
MaxStart == 3
MaxRetries == 3
MaxBackoff == 2
MaxExisting == 2
MaxRuns == 2
MaxRewrite == 2
MaxAudioRows == 4
MaxBatchSize == 3
MaxRunRows == 2
MaxXttsRows == 3
MaxStartRow == 2
MaxEndRow == 3
MaxVoices == 2
MaxChars == 2
MaxItems == 2

(* ------------------------------------------------------------ csv cells  *)
\* A data cell of a CSV file.  The empty string is EmptyCell, whatever the
\* column it stands in.
EmptyCell == [kind |-> "empty", a |-> 0, b |-> 0]
WidCell(i) == [kind |-> "wid", a |-> i, b |-> 0]
\* word 0 is the empty string, a word w > 0 is non-empty text
WordCell(w) == IF w = 0 THEN EmptyCell ELSE [kind |-> "word", a |-> w, b |-> 0]
MeaningCell(w, v) == [kind |-> "meaning", a |-> w, b |-> v]

\* row.get("word", "").strip(): the word a cell holds
StripWord(cell) == IF cell.kind = "word" THEN cell.a ELSE 0

(* ------------------------------------------------- strings and values  *)
\* A Python string is a sequence of characters.  Space is a white-space
\* character; MeaningCell(w, v) stands for the text of a meaning, which
\* holds no white space; Semicolon and Colon are the full-width separators.
Space == [kind |-> "space", a |-> 0, b |-> 0]
Semicolon == [kind |-> "semicolon", a |-> 0, b |-> 0]
Colon == [kind |-> "colon", a |-> 0, b |-> 0]

\* s.lstrip()
RECURSIVE lstrip(_)
lstrip(s) == IF s # <<>> /\ Head(s) = Space THEN lstrip(Tail(s)) ELSE s

\* s.rstrip()
RECURSIVE rstrip(_)
rstrip(s) ==
    IF s # <<>> /\ s[Len(s)] = Space THEN rstrip(SubSeq(s, 1, Len(s) - 1)) ELSE s

\* s.strip()
strip(s) == rstrip(lstrip(s))

\* sep.join(parts)
RECURSIVE join(_, _)
join(sep, parts) ==
    IF parts = <<>> THEN <<>>
    ELSE IF Len(parts) = 1 THEN parts[1]
    ELSE parts[1] \o <<sep>> \o join(sep, Tail(parts))

\* What json.loads yields: None, a number, a string, a list, an object
\* (a function from its keys to their values).
None == [shape |-> "none"]
Num(n) == [shape |-> "num", n |-> n]
Str(s) == [shape |-> "str", text |-> s]
List(items) == [shape |-> "list", items |-> items]
Dict(map) == [shape |-> "dict", map |-> map]

\* str(x): a string itself; for any other value the text Python prints for
\* it, which holds no white space at its ends and is here one character
str(x) ==
    IF x.shape = "str" THEN x.text
    ELSE <<[kind |-> "repr", a |-> 0, b |-> 0, of |-> x]>>

\* json.dumps(item, ensure_ascii=False): the JSON text of the value
dumps(x) == <<[kind |-> "json", a |-> 0, b |-> 0, of |-> x]>>

\* bool(x), as "or" and "and" take it
Truthy(x) ==
    CASE x.shape = "none" -> FALSE
      [] x.shape = "num" -> x.n # 0
      [] x.shape = "str" -> x.text # <<>>
      [] x.shape = "list" -> x.items # <<>>
      [] x.shape = "dict" -> DOMAIN x.map # {}

\* item.get(key)
get(d, key) == IF key \in DOMAIN d.map THEN d.map[key] ELSE None

\* a or b
Or(x, y) == IF Truthy(x) THEN x ELSE y

\* csv.writer: the cell that holds a string
CellOf(s) ==
    IF s = <<>> THEN EmptyCell
    ELSE IF Len(s) = 1 /\ s[1].kind = "meaning" THEN s[1]
    ELSE [kind |-> "text", a |-> 0, b |-> 0, text |-> s]

(* ------------------------------------------------------------ the files  *)
\* A file: whether it exists, its lines (each a sequence of cells; line 1 is
\* the header, a sequence of column names) and whether its last line is torn:
\* it ends behind a separator, without its line terminator.
Absent == [exists |-> FALSE, lines |-> <<>>, torn |-> FALSE]
EmptyFile == [exists |-> TRUE, lines |-> <<>>, torn |-> FALSE]

\* f.write of one whole line at the end of the file: behind a torn last line
\* the new cells continue that line.
AppendLine(f, line) ==
    IF f.torn
    THEN [f EXCEPT !.lines[Len(f.lines)] = @ \o line, !.torn = FALSE]
    ELSE [f EXCEPT !.lines = Append(@, line)]

RECURSIVE AppendLines(_, _)
AppendLines(f, ls) ==
    IF ls = <<>> THEN f ELSE AppendLines(AppendLine(f, Head(ls)), Tail(ls))

\* The first t cells of a line and the separator behind them, with no line
\* terminator (t >= 1).
AppendTorn(f, line, t) ==
    IF f.torn
    THEN [f EXCEPT !.lines[Len(f.lines)] = @ \o SubSeq(line, 1, t)]
    ELSE [f EXCEPT !.lines = Append(@, SubSeq(line, 1, t)), !.torn = TRUE]

\* csv.reader over a file: a torn last line ends behind a separator, which
\* reads as one more, empty, field.
ReadLines(f) ==
    IF f.torn
    THEN [f.lines EXCEPT ![Len(f.lines)] =
             @ \o <<IF Len(f.lines) = 1 THEN "" ELSE EmptyCell>>]
    ELSE f.lines

(* --------------------------------------------------------------- state   *)
VARIABLES
    args,           \* the parsed command line (argparse namespace)
    api_key,        \* whether DEEPSEEK_API_KEY is set
    fieldnames,     \* the input CSV's header
    input,          \* the input CSV's data rows: the word of each row
    ver,            \* which answers the service gives (fixed in a behaviour)
    disk,           \* the output file as it is on disk
    bak,            \* output_path + ".bak_rewrite"
    tmp,            \* output_path + ".tmp"
    pc,             \* where the process is
    site,           \* which call of call_with_retries is running
    fout,           \* whether the output handle is open
    pending,        \* lines written to fout and still in its buffer
    reader,         \* data rows of the input consumed so far
    processed,
    total_written,
    batch_rows,
    batch_words,
    attempt,
    last_err,
    results,
    zi,             \* pairs the zip of lines 273 and 294 has yielded
    rows,           \* rewrite_first_rows: the output's rows, as dicts
    err,            \* what ended the run, "" while it runs or when it is done
    delays,         \* the time.sleep calls of the current call_with_retries
    calls,          \* the word lists this run has sent to the service
    written,        \* lines of data written by this run
    disk0,          \* the output file when the run started
    origin,         \* the output file when the first run started
    run,            \* 1 for the first run, 2 for a re-run
    killed,         \* where the last terminated run was ("" if none was)
    lost,           \* whether that termination lost text already written
    tries,          \* service calls of the current call_with_retries
    reply,          \* what the service did at the latest of them
    failed,         \* whether a service call has failed
    item,           \* normalize_item: its argument
    normalized,     \*   and what it has returned, in a list
    yielded,        \* iter_words: what the generator has yielded
    \* --- the audio pipelines (synthesize_csv, xtts main)
    artifacts,      \* the audio files that exist under out_dir
    batch_texts,
    batch_paths,
    batch_meta,
    skip_log,       \* the file at skip_log_path (skipped.csv)
    skip_file,      \* the handle on it: whether open, and its buffer
    texts,          \* flush_batch: the texts passed to the service,
    paths,          \*   their paths
    metas,          \*   and their (row_index, row_id)
    wavs,           \* what the batch call returned
    saves,          \* the row indexes whose audio this flush has saved
    batch_failed,   \* whether this flush took the except branch of line 201
    mark,           \* the entries this run had logged when the flush began
    skip_log0       \* skip_log when the run started

vars == <<args, api_key, fieldnames, input, ver, disk, bak, tmp, pc, site,
          fout, pending, reader, processed, total_written, batch_rows,
          batch_words, attempt, last_err, results, rows, err, delays, calls,
          written, disk0, run, killed, lost, tries, failed, zi, origin,
          reply, item, normalized, yielded, artifacts, batch_texts, batch_paths, batch_meta, skip_log,
          skip_file, texts, paths, metas, wavs, saves, batch_failed, mark,
          skip_log0>>

\* the state of synthesize_csv and of its flush_batch
audio_locals == <<batch_texts, batch_paths, batch_meta, skip_log, skip_file,
                  texts, paths, metas, wavs, saves, batch_failed, mark,
                  skip_log0>>

\* what no step of the text pipeline changes: its command line and input,
\* and the state of the audio pipelines
env == <<args, api_key, fieldnames, input, ver, origin, artifacts, audio_locals,
         item, normalized, yielded>>
locals == <<reader, processed, total_written, batch_rows, batch_words,
            attempt, last_err, results, zi, rows>>

(* ------------------------------------------------------------ the input  *)
\* a reader that yields the rows from the end of the file
InputRowFromEnd(i) ==
    <<WidCell(Len(input) + 1 - i), WordCell(input[Len(input) + 1 - i])>>

\* csv.DictReader over the input: row i as the line the writer will emit
InputRow(i) == <<WidCell(i), WordCell(input[i])>>

\* whether a header holds a column
HasColumn(header, name) == \E j \in 1..Len(header) : header[j] = name

\* out_fields = list(reader.fieldnames) + ["meaning_pos"]
out_fields == fieldnames \o <<"meaning_pos">>

\* a resume that has to be asked for with --resume
ResumeOnlyOnRequest == args.resume

\* resume_allowed = not args.no_resume; if args.resume: resume_allowed = True
resume_allowed == (~args.no_resume) \/ args.resume

(* ----------------------------------------------------------- the service *)
\* What the service answers for one word: a string, here with surrounding
\* white space.
ServiceItem(w) == Str(<<Space, MeaningCell(w, ver), Space>>)

ServiceAnswer(ws) == [i \in 1..Len(ws) |-> ServiceItem(ws[i])]

\* what the service did at a call: it raised, or returned so many items;
\* NoReply before the first call
NoReply == [raised |-> FALSE, items |-> 0 - 1]
Raised == [raised |-> TRUE, items |-> 0]
Returned(res) == [raised |-> FALSE, items |-> Len(res)]

\* a filter that keeps the elements that are blank
KeepsBlank(s) == TRUE

\* if str(x).strip()
NonBlank(s) == strip(s) # <<>>

\* "；".join(str(x).strip() for x in item if str(x).strip())
JoinStripped(items) ==
    join(Semicolon,
         [i \in 1..Len(SelectSeq(items, LAMBDA x : NonBlank(str(x)))) |->
             strip(str(SelectSeq(items, LAMBDA x : NonBlank(str(x)))[i]))])

\* normalize_item, lines 11-24 (the keys 词性 and 词义 are written pos_zh and
\* meaning_zh)
normalize_item(it) ==
    IF it.shape = "str" THEN strip(it.text)
    ELSE IF it.shape = "list" THEN JoinStripped(it.items)
    ELSE IF it.shape = "dict"
    THEN LET pos == Or(Or(get(it, "pos_zh"), get(it, "pos")),
                       get(it, "part_of_speech"))
             found == Or(Or(get(it, "meaning_zh"), get(it, "meaning")),
                         get(it, "meanings"))
             meanings == IF found.shape = "list"
                         THEN Str(JoinStripped(found.items))
                         ELSE found
         IN IF Truthy(pos) /\ Truthy(meanings)
            THEN str(pos) \o <<Colon>> \o strip(str(meanings))
            ELSE dumps(it)
    ELSE strip(str(it))

\* normalize_item is called and returns (it has no raise and calls nothing
\* that raises on a value json.loads has produced)
NormalizeItem ==
    /\ pc = "normalize_item"
    /\ normalized' = <<normalize_item(item)>>
    /\ pc' = "returned"
    /\ UNCHANGED <<args, api_key, fieldnames, input, ver, origin, artifacts,
                   audio_locals, item, yielded, disk, bak, tmp, site, fout, pending,
                   locals, err, delays, reply, calls, tries, written, disk0,
                   run, killed, lost, failed>>

(* ------------------------------------------------------- main, the start *)
\* raise SystemExit(reason) before the output handle exists
Exit(reason) ==
    /\ pc' = "fatal"
    /\ err' = reason

\* main, lines 194-220: the credential, the dispatch to rewrite_first_rows,
\* the input's header.
Main ==
    /\ pc = "main"
    /\ IF ~api_key
       THEN Exit("Missing DEEPSEEK_API_KEY")
       ELSE IF args.rewrite_first # 0
       THEN pc' = "rewrite_first_rows" /\ err' = err
       ELSE IF fieldnames = <<>>
       THEN Exit("Input CSV has no header")
       ELSE IF ~HasColumn(fieldnames, "word")
       THEN Exit("Input CSV must contain a 'word' column")
       ELSE pc' = "open_output" /\ err' = err
    /\ UNCHANGED <<env, disk, bak, tmp, site, fout, pending, locals, delays, reply,
                   calls, tries, written, disk0, run, killed, lost, failed>>

\* count_existing_rows, given that the path exists: the header csv.reader
\* reads (None, here <<>>, from a file with no line)
ExistingHeader(f) == IF ReadLines(f) = <<>> THEN <<>> ELSE ReadLines(f)[1]

\* a count_existing_rows that does not compare the header
HeaderNeverChecked(f, expected_header) == FALSE

\* if header != expected_header
HeaderMismatch(f, expected_header) == ExistingHeader(f) # expected_header

\* a count that takes the header for a row
CountWithHeader(f) == IF f.exists THEN Len(ReadLines(f)) ELSE 0

\* sum(1 for _ in reader): the lines behind the header
count_existing_rows(f) == IF f.exists THEN Len(ReadLines(f)) - 1 ELSE 0

\* main, lines 226-236: resume by appending, or refuse, or create afresh.
\* open(path, "w") truncates the file at once; the header goes to the buffer.
OpenOutput ==
    /\ pc = "open_output"
    /\ IF disk.exists /\ ~args.overwrite /\ resume_allowed
       THEN IF HeaderMismatch(disk, out_fields)
            THEN /\ Exit("Output header mismatch. Use --overwrite to rebuild.")
                 /\ UNCHANGED <<disk, fout, pending, processed>>
            ELSE /\ processed' = count_existing_rows(disk)
                 /\ fout' = TRUE
                 /\ pc' = "skip"
                 /\ UNCHANGED <<disk, pending, err>>
       ELSE IF disk.exists /\ ~args.overwrite /\ ~resume_allowed
            THEN /\ Exit("Output exists. Use --overwrite or --resume.")
                 /\ UNCHANGED <<disk, fout, pending, processed>>
            ELSE /\ disk' = EmptyFile
                 /\ fout' = TRUE
                 /\ pending' = <<out_fields>>
                 /\ pc' = "skip"
                 /\ UNCHANGED <<processed, err>>
    /\ UNCHANGED <<env, bak, tmp, site, reader, total_written, batch_rows,
                   batch_words, attempt, last_err, results, zi, rows, delays, reply,
                   calls, tries, written, disk0, run, killed, lost, failed>>

\* fout.close(): what is in the buffer reaches the disk
Close(f, buffered) == AppendLines(f, buffered)

\* a skip of the existing rows and of the rows before the start index, added
SkipTargetSum == processed + (args.start - 1)

\* skip_target = max(processed, args.start - 1)
skip_target ==
    IF processed >= args.start - 1 THEN processed ELSE args.start - 1

\* main, lines 238-252: the start index, the skip loop, the skip check; an
\* exit here runs the finally clause, which closes the handle.
SkipRows ==
    /\ pc = "skip"
    /\ IF args.start < 1
       THEN /\ pc' = "fatal"
            /\ err' = "--start must be >= 1"
            /\ disk' = Close(disk, pending)
            /\ pending' = <<>>
            /\ fout' = FALSE
            /\ UNCHANGED <<reader, total_written>>
       ELSE IF Len(input) < skip_target
       THEN /\ pc' = "fatal"
            /\ err' = "Skip target exceeds input rows; aborting."
            /\ disk' = Close(disk, pending)
            /\ pending' = <<>>
            /\ fout' = FALSE
            /\ reader' = Len(input)
            /\ UNCHANGED total_written
       ELSE /\ pc' = "loop"
            /\ reader' = skip_target
            /\ total_written' = processed
            /\ UNCHANGED <<disk, pending, fout, err>>
    /\ UNCHANGED <<env, bak, tmp, site, processed, batch_rows, batch_words,
                   attempt, last_err, results, zi, rows, delays, reply, calls, tries, written,
                   disk0, run, killed, lost, failed>>

\* a limit that counts the rows of this run only
LimitCountsThisRun == args.limit # 0 /\ written >= args.limit

\* if args.limit and total_written >= args.limit
LimitReached == args.limit # 0 /\ total_written >= args.limit

\* a flush one row late
BatchOverfull(n) == n = args.batch + 1

\* if len(batch_words) == args.batch
BatchFull(n) == n = args.batch

\* main, lines 254-262: one iteration of "for row in reader" up to the call;
\* and line 283, once the loop has ended.
ReadRow ==
    /\ pc = "loop"
    /\ IF reader < Len(input) /\ ~LimitReached
       THEN /\ reader' = reader + 1
            /\ batch_rows' = Append(batch_rows, InputRow(reader + 1))
            /\ batch_words' = Append(batch_words, StripWord(WordCell(input[reader + 1])))
            /\ IF BatchFull(Len(batch_words) + 1)
               THEN /\ pc' = "call" /\ site' = "loop" /\ attempt' = 0
                    /\ last_err' = "" /\ tries' = 0 /\ delays' = <<>> /\ reply' = NoReply
               ELSE UNCHANGED <<pc, site, attempt, last_err, tries, delays, reply>>
            /\ UNCHANGED <<disk, pending, fout>>
       ELSE \* the source is exhausted, or the break of line 256 (which has
            \* consumed one more row)
            /\ reader' = IF reader < Len(input) THEN reader + 1 ELSE reader
            /\ IF batch_words # <<>> /\ ~LimitReached
               THEN /\ pc' = "call" /\ site' = "final" /\ attempt' = 0
                    /\ last_err' = "" /\ tries' = 0 /\ delays' = <<>> /\ reply' = NoReply
                    /\ UNCHANGED <<disk, pending, fout>>
               ELSE /\ pc' = "done"
                    /\ disk' = Close(disk, pending)
                    /\ pending' = <<>>
                    /\ fout' = FALSE
                    /\ UNCHANGED <<site, attempt, last_err, tries, delays, reply>>
            /\ UNCHANGED <<batch_rows, batch_words>>
    /\ UNCHANGED <<env, bak, tmp, processed, total_written, results, zi, rows,
                   err, calls, written, disk0, run, killed, lost, failed>>

(* ------------------------------------------------------ call_with_retries *)
RECURSIVE Pow2(_)
Pow2(k) == IF k = 0 THEN 1 ELSE 2 * Pow2(k - 1)

\* a wait of backoff * 2 ** (attempt + 1)
WaitOneDoublingMore(backoff, k) == backoff * Pow2(k + 1)

\* wait = backoff * (2 ** attempt)
Wait(backoff, k) == backoff * Pow2(k)

\* a loop that makes one attempt more
InRangeInclusive(k, retries) == k <= retries

\* for attempt in range(retries)
InRange(k, retries) == k < retries

\* a rewrite that copies the output before it has looked at it
AfterCallBackupFirst == IF site = "rewrite" THEN "backup" ELSE "write"

\* where a returned result goes: rewrite_first_rows line 143, or the zip of
\* main
AfterCall == IF site = "rewrite" THEN "read_output" ELSE "write"

\* What call_deepseek can return for the words: an array with one item per
\* word, or one that lacks the last item, or one with an item more.
ServiceAnswers(ws) ==
    {SubSeq(ServiceAnswer(ws \o <<0>>), 1, m) : m \in (Len(ws) - 1)..(Len(ws) + 1)}

\* a check that only refuses an answer with too few items
TooFewItems(result, words) == Len(result) < Len(words)

\* if len(result) != len(words)
LengthMismatch(result, words) == Len(result) # Len(words)

\* call_with_retries, lines 94-98: an attempt whose answer passes the length
\* check
CallReturns ==
    /\ pc = "call"
    /\ InRange(attempt, args.retries)
    /\ \E result \in ServiceAnswers(batch_words) :
          /\ ~LengthMismatch(result, batch_words)
          /\ results' = result
          /\ reply' = Returned(result)
    /\ calls' = Append(calls, batch_words)
    /\ tries' = tries + 1
    /\ pc' = AfterCall
    /\ UNCHANGED <<env, disk, bak, tmp, site, fout, pending, reader, processed,
                   total_written, batch_rows, batch_words, attempt, last_err,
                   zi, rows, err, delays, written, disk0, run, killed, lost, failed>>

\* what an attempt can raise: call_deepseek's own errors (network, "error"
\* in the reply, no JSON array) and the length check of line 96
ServiceErrors == {"ServiceError", "Output length mismatch"}

\* call_with_retries, lines 99-103: an attempt that raises, in call_deepseek
\* or at the length check
CallFails ==
    /\ pc = "call"
    /\ InRange(attempt, args.retries)
    /\ \E exc \in ServiceErrors :
          /\ last_err' = exc
          /\ IF exc = "Output length mismatch"
             THEN \E result \in ServiceAnswers(batch_words) :
                     /\ LengthMismatch(result, batch_words)
                     /\ reply' = Returned(result)
             ELSE reply' = Raised
    /\ calls' = Append(calls, batch_words)
    /\ tries' = tries + 1
    /\ delays' = Append(delays, Wait(args.backoff, attempt))
    /\ attempt' = attempt + 1
    /\ failed' = TRUE
    /\ UNCHANGED <<env, disk, bak, tmp, pc, site, fout, pending, reader,
                   processed, total_written, batch_rows, batch_words, results,
                   zi, rows, err, written, disk0, run, killed, lost>>

\* call_with_retries, line 104: raise last_err (raise None is a TypeError);
\* nothing catches it, and main's finally clause closes the handle.
CallRaises ==
    /\ pc = "call"
    /\ ~InRange(attempt, args.retries)
    /\ pc' = "crashed"
    /\ err' = IF last_err = "" THEN "TypeError" ELSE last_err
    /\ disk' = Close(disk, pending)
    /\ pending' = <<>>
    /\ fout' = FALSE
    /\ UNCHANGED <<env, bak, tmp, site, locals, delays, reply, calls, tries, written, disk0,
                   run, killed, lost, failed>>

(* ----------------------------------------------------- main, the writing *)
\* zip(batch_rows, results) stops at the shorter of the two
ZipLen == IF Len(batch_rows) <= Len(results) THEN Len(batch_rows) ELSE Len(results)

\* r = dict(r); r["meaning_pos"] = normalize_item(meaning): the line
\* writer.writerow(r) emits
OutputRow(r, meaning) == r \o <<CellOf(normalize_item(meaning))>>

\* main, lines 273-281 and 294-300: one iteration of the zip loop; behind
\* the last one the batch is cleared (in the loop) or the run ends (behind it).
WriteRow ==
    /\ pc = "write"
    /\ zi < ZipLen
    /\ total_written' = total_written + 1
    /\ written' = written + 1
    /\ LET line == OutputRow(batch_rows[zi + 1], results[zi + 1]) IN
       IF zi + 1 < ZipLen
       THEN /\ zi' = zi + 1
            /\ pending' = Append(pending, line)
            /\ UNCHANGED <<pc, batch_rows, batch_words, disk, fout>>
       ELSE IF site = "loop"
       THEN /\ zi' = 0
            /\ pending' = Append(pending, line)
            /\ pc' = "loop"
            /\ batch_rows' = <<>>
            /\ batch_words' = <<>>
            /\ UNCHANGED <<disk, fout>>
       ELSE /\ zi' = 0
            /\ pc' = "done"
            /\ disk' = Close(disk, Append(pending, line))
            /\ pending' = <<>>
            /\ fout' = FALSE
            /\ UNCHANGED <<batch_rows, batch_words>>
    /\ UNCHANGED <<env, bak, tmp, site, reader, processed, attempt, last_err,
                   results, rows, err, delays, reply, calls, tries, disk0, run, killed, lost,
                   failed>>

\* main, lines 276 and 297: writer.writerow raises (a row with more cells
\* than the header, a failed write); main's finally clause closes the handle
WriteRaises ==
    /\ pc = "write"
    /\ zi < ZipLen
    /\ pc' = "crashed"
    /\ err' = "WriteError"
    /\ disk' = Close(disk, pending)
    /\ pending' = <<>>
    /\ fout' = FALSE
    /\ UNCHANGED <<env, bak, tmp, site, locals, delays, reply, calls, tries,
                   written, disk0, run, killed, lost, failed>>

(* ------------------------------------------------------ rewrite_first_rows *)
ColumnIndex(header, name) == CHOOSE j \in 1..Len(header) : header[j] = name

\* the value csv.DictReader gives a column the line has no cell for (restval)
NoneCell == [kind |-> "none", a |-> 0, b |-> 0]

\* csv.DictReader: a line as a dict over the header's columns; cells beyond
\* the header are kept under the key None (restkey)
DictRow(header, line) ==
    [cells |-> [j \in 1..Len(header) |-> IF j <= Len(line) THEN line[j] ELSE NoneCell],
     rest |-> SubSeq(line, Len(header) + 1, Len(line))]

\* list(out_reader): the data lines of the output, as dicts
DictRows(f) ==
    LET ls == ReadLines(f) IN
    [i \in 1..(Len(ls) - 1) |-> DictRow(ls[1], ls[i + 1])]

\* a rewrite that keeps only the rows it has recomputed
SetMeaningsDropRest(rs, header, res, count) ==
    [i \in 1..count |->
        [rs[i] EXCEPT !.cells[ColumnIndex(header, "meaning_pos")] = res[i]]]

\* for i in range(count): rows[i]["meaning_pos"] = results[i]
SetMeanings(rs, header, res, count) ==
    [i \in 1..Len(rs) |->
        IF i <= count
        THEN [rs[i] EXCEPT !.cells[ColumnIndex(header, "meaning_pos")] = res[i]]
        ELSE rs[i]]

\* csv.DictWriter: the line of a dict (None is written as the empty string)
DictLine(row) ==
    [j \in 1..Len(row.cells) |->
        IF row.cells[j] = NoneCell THEN EmptyCell ELSE row.cells[j]]

\* the rows writerows emits before it meets a dict with a key that is no
\* fieldname (all of them if there is none)
Writable(rs) ==
    IF \E i \in 1..Len(rs) : rs[i].rest # <<>>
    THEN (CHOOSE i \in 1..Len(rs) :
             rs[i].rest # <<>> /\ \A j \in 1..(i - 1) : rs[j].rest = <<>>) - 1
    ELSE Len(rs)

\* rewrite_first_rows, lines 117-131: the count, the input's header, the
\* first count words
RewriteReadInput ==
    /\ pc = "rewrite_first_rows"
    /\ IF args.rewrite_first < 1
       THEN /\ Exit("--rewrite-first must be >= 1")
            /\ UNCHANGED <<site, batch_words, attempt, last_err, tries, delays, reply>>
       ELSE IF ~HasColumn(fieldnames, "word")
       THEN /\ Exit("Input CSV must contain a 'word' column")
            /\ UNCHANGED <<site, batch_words, attempt, last_err, tries, delays, reply>>
       ELSE IF Len(input) < args.rewrite_first
       THEN /\ Exit("Input has fewer rows than --rewrite-first")
            /\ UNCHANGED <<site, batch_words, attempt, last_err, tries, delays, reply>>
       ELSE /\ batch_words' = [i \in 1..args.rewrite_first |->
                                  StripWord(WordCell(input[i]))]
            /\ pc' = "call" /\ site' = "rewrite" /\ attempt' = 0
            /\ last_err' = "" /\ tries' = 0 /\ delays' = <<>> /\ reply' = NoReply
            /\ err' = err
    /\ UNCHANGED <<env, disk, bak, tmp, fout, pending, reader, processed,
                   total_written, batch_rows, results, zi, rows, calls,
                   written, disk0, run, killed, lost, failed>>

\* rewrite_first_rows, lines 143-159: the results are normalized, the output
\* is read and its first count rows get the new results
RewriteReadOutput ==
    /\ pc = "read_output"
    /\ IF Len(results) # args.rewrite_first
       THEN Exit("Output length mismatch") /\ rows' = rows
       ELSE IF ~disk.exists
       THEN pc' = "crashed" /\ err' = "FileNotFoundError" /\ rows' = rows
       ELSE IF ~HasColumn(ExistingHeader(disk), "meaning_pos")
       THEN Exit("Output missing meaning_pos column") /\ rows' = rows
       ELSE IF Len(DictRows(disk)) < args.rewrite_first
       THEN Exit("Output has fewer rows than --rewrite-first") /\ rows' = rows
       ELSE /\ rows' = SetMeanings(DictRows(disk), ExistingHeader(disk),
                                   [i \in 1..Len(results) |->
                                       CellOf(normalize_item(results[i]))],
                                   args.rewrite_first)
            /\ pc' = "backup"
            /\ err' = err
    /\ UNCHANGED <<env, disk, bak, tmp, site, fout, pending, reader, processed,
                   total_written, batch_rows, batch_words, attempt, last_err,
                   results, zi, delays, reply, calls, tries, written, disk0, run,
                   killed, lost, failed>>

\* rewrite_first_rows, lines 161-162: shutil.copy2(output_path, backup)
RewriteBackup ==
    /\ pc = "backup"
    /\ bak' = disk
    /\ pc' = "write_tmp"
    /\ UNCHANGED <<env, disk, tmp, site, fout, pending, locals, err, delays, reply,
                   calls, tries, written, disk0, run, killed, lost, failed>>

\* rewrite_first_rows, lines 164-168: the header and the rows go to the
\* temporary file; a dict with a key outside the header raises ValueError
RewriteWriteTmp ==
    /\ pc = "write_tmp"
    /\ tmp' = [exists |-> TRUE,
               lines |-> <<ExistingHeader(disk)>> \o
                         [i \in 1..Writable(rows) |-> DictLine(rows[i])],
               torn |-> FALSE]
    /\ IF Writable(rows) < Len(rows)
       THEN pc' = "crashed" /\ err' = "ValueError"
       ELSE pc' = "replace" /\ err' = err
    /\ UNCHANGED <<env, disk, bak, site, fout, pending, locals, delays, reply, calls,
                   tries, written, disk0, run, killed, lost, failed>>

\* rewrite_first_rows, line 170: os.replace(tmp_path, output_path)
RewriteReplace ==
    /\ pc = "replace"
    /\ disk' = tmp
    /\ tmp' = Absent
    /\ pc' = "done"
    /\ UNCHANGED <<env, bak, site, fout, pending, locals, err, delays, reply, calls,
                   tries, written, disk0, run, killed, lost, failed>>

(* ------------------------------------------------- termination and re-run *)
Running == {"main", "open_output", "skip", "loop", "call", "write",
            "rewrite_first_rows", "read_output", "backup", "write_tmp", "replace"}

\* What the buffered writer had already handed to the file when the process
\* is terminated: any number p of the buffered lines, and possibly the first
\* t cells of the next one.
Spilled(f, buffered, p, t) ==
    IF t = 0
    THEN AppendLines(f, SubSeq(buffered, 1, p))
    ELSE AppendTorn(AppendLines(f, SubSeq(buffered, 1, p)), buffered[p + 1], t)

\* The process is terminated from outside (SIGKILL, SIGTERM, power loss): no
\* finally clause runs, the buffer is lost.
Kill ==
    /\ pc \in Running
    /\ \E p \in 0..Len(pending) : \E t \in 0..2 :
          /\ t > 0 => (p < Len(pending) /\ t < Len(pending[p + 1]))
          /\ disk' = Spilled(disk, pending, p, t)
          /\ lost' = (Spilled(disk, pending, p, t) # Close(disk, pending))
    /\ pending' = <<>>
    /\ fout' = FALSE
    /\ killed' = pc
    /\ pc' = "killed"
    /\ UNCHANGED <<env, bak, tmp, site, locals, err, delays, reply, calls, tries, written,
                   disk0, run, failed>>

\* The same command line is run again after a run that did not complete.
Rerun ==
    /\ pc = "killed"
    /\ run < MaxRuns
    /\ run' = run + 1
    /\ pc' = "main"
    /\ disk0' = disk
    /\ site' = ""
    /\ reader' = 0
    /\ processed' = 0
    /\ total_written' = 0
    /\ batch_rows' = <<>>
    /\ batch_words' = <<>>
    /\ attempt' = 0
    /\ last_err' = ""
    /\ results' = <<>>
    /\ zi' = 0
    /\ rows' = <<>>
    /\ err' = ""
    /\ delays' = <<>> /\ reply' = NoReply
    /\ calls' = <<>>
    /\ tries' = 0
    /\ written' = 0
    /\ UNCHANGED <<env, disk, bak, tmp, fout, pending, killed, lost, failed>>

(* ----------------------------- tts_arabic_words_batch.py: synthesize_csv *)
\* A row of the audio pipelines' input is a sequence of cells; a cell is a
\* number: 0 is the empty string, Blank a string of white space only.
Blank == 0 - 1

\* value.strip()
Strip(value) == IF value = Blank THEN 0 ELSE value

\* row[col] if col < len(row) else ""
CellAt(row, col) == IF col < Len(row) THEN row[col + 1] ELSE 0

\* iter_words, lines 73-75: the text column, or the fallback column when
\* the text is empty
ResolvedText(row) ==
    LET text == CellAt(row, args.text_col) IN
    IF text = 0 /\ args.fallback_col < Len(row)
    THEN row[args.fallback_col + 1]
    ELSE text

\* an index that counts the yielded rows only
YieldIndex == Len(yielded) + 1

\* enumerate(reader, start=1): the index of the row read next
RowIndex == reader + 1

\* iter_words, lines 70-76 (xtts: 88-94): the generator reads one row; an
\* empty row is passed over, any other is yielded with its index and text
IterNext ==
    /\ pc = "iter_words"
    /\ IF reader < Len(input)
       THEN /\ reader' = reader + 1
            /\ pc' = pc
            /\ yielded' = IF input[reader + 1] = <<>>
                          THEN yielded
                          ELSE Append(yielded,
                                      [index |-> RowIndex,
                                       row |-> input[reader + 1],
                                       text |-> ResolvedText(input[reader + 1])])
       ELSE /\ pc' = "exhausted"
            /\ UNCHANGED <<reader, yielded>>
    /\ UNCHANGED <<args, input, site, zi, run, processed, artifacts,
                   audio_locals, item, normalized, api_key, fieldnames, ver,
                   disk, bak, tmp, fout, pending, total_written, batch_rows,
                   batch_words, attempt, last_err, results, rows, delays,
                   written, disk0, origin, killed, lost, tries, failed, reply,
                   err, calls>>

\* safe_filename: the stripped value (the ids here hold no character that
\* is replaced)
safe_filename(value) == Strip(value)

\* choose_filename and out_dir / filename: the id's file, or row_<index>
choose_filename(row, index) ==
    IF args.id_col < Len(row) /\ safe_filename(row[args.id_col + 1]) # 0
    THEN [kind |-> "id", v |-> safe_filename(row[args.id_col + 1])]
    ELSE [kind |-> "row", v |-> index]

\* lines 232-234: row_id
RowId(row) == IF args.id_col < Len(row) THEN Strip(row[args.id_col + 1]) ELSE 0

\* skip_writer.writerow(["row_index", "row_id", "text", "reason"])
SkipHeader == [row_index |-> 0, row_id |-> 0, text |-> 0, reason |-> "reason"]

\* an entry that names no row
SkipEntryWithoutIndex(row_index, row_id, text, reason) ==
    [row_index |-> 0, row_id |-> 0, text |-> text, reason |-> reason]

\* skip_writer.writerow([row_index, row_id, text, reason])
SkipEntry(row_index, row_id, text, reason) ==
    [row_index |-> row_index, row_id |-> row_id, text |-> text, reason |-> reason]

\* a closed handle, or one never opened (skip_file is None)
Closed == [open |-> FALSE, buffer |-> <<>>]

\* a log that gets its header whenever a run opens it
HeaderAtEveryOpen(log) == TRUE

\* is_new = not skip_log_path.exists()
is_new(log) == ~log.exists

\* a finally clause that leaves the handle as it is
NeverClosed(file) == file

\* skip_file.close(): the handle after it
close(file) == [open |-> FALSE, buffer |-> <<>>]

\* log_skip on the log s = [log, file]: the first call of a run opens the
\* file for appending, which creates it, and writes the header if it is new
log_skip(s, entry) ==
    IF ~s.file.open
    THEN [log |-> [s.log EXCEPT !.exists = TRUE],
          file |-> [open |-> TRUE,
                    buffer |-> (IF is_new(s.log) THEN <<SkipHeader>> ELSE <<>>)
                               \o <<entry>>]]
    ELSE [log |-> s.log, file |-> [s.file EXCEPT !.buffer = Append(@, entry)]]

\* the log and its handle, as log_skip takes them
SkipLog == [log |-> skip_log, file |-> skip_file]

\* everything in the log, on disk or still in the handle's buffer
AllLog == skip_log.lines \o skip_file.buffer

\* the variables of the text pipeline, which the audio pipelines leave alone
text_files == <<api_key, fieldnames, ver, disk, bak, tmp, fout, pending,
                total_written, batch_rows, batch_words, attempt, last_err,
                results, rows, delays, written, disk0, origin, killed, lost,
                tries, failed, reply, item, normalized, yielded>>
text_locals == <<text_files, err, calls>>

\* synthesize_csv, lines 224-250: one iteration of the loop over iter_words
\* up to the flush, and the flush behind the loop
IterWords ==
    /\ pc = "iter"
    /\ IF reader < Len(input)
       THEN LET index == reader + 1
                row == input[index]
                text == ResolvedText(row)
                out_path == choose_filename(row, index)
            IN /\ reader' = index
               /\ \E missing \in BOOLEAN :
                     IF row = <<>> \/ text = 0
                           \/ (args.skip_existing /\ out_path \in artifacts)
                     THEN UNCHANGED <<batch_texts, batch_paths, batch_meta,
                                      skip_log, skip_file, pc, site>>
                     ELSE IF missing
                     THEN /\ skip_log' = log_skip(SkipLog,
                                 SkipEntry(index, RowId(row), text, "invalid_tokens")).log
                          /\ skip_file' = log_skip(SkipLog,
                                 SkipEntry(index, RowId(row), text, "invalid_tokens")).file
                          /\ UNCHANGED <<batch_texts, batch_paths, batch_meta, pc, site>>
                     ELSE /\ batch_texts' = Append(batch_texts, text)
                          /\ batch_paths' = Append(batch_paths, out_path)
                          /\ batch_meta' = Append(batch_meta,
                                 [row_index |-> index, row_id |-> RowId(row)])
                          /\ IF Len(batch_texts) + 1 >= args.batch_size
                             THEN pc' = "flush_batch" /\ site' = "loop"
                             ELSE UNCHANGED <<pc, site>>
                          /\ UNCHANGED <<skip_log, skip_file>>
       ELSE /\ pc' = "flush_batch"
            /\ site' = "final"
            /\ UNCHANGED <<reader, batch_texts, batch_paths, batch_meta,
                           skip_log, skip_file>>
    /\ UNCHANGED <<args, input, run, processed, zi, artifacts, texts, paths,
                   metas, wavs, saves, batch_failed, mark, skip_log0, text_locals>>

\* flush_batch returns, lines 246-254: to the loop, which ends when the
\* limit is reached, or to the end of synthesize_csv, whose finally clause
\* closes the log
FlushBatchReturns ==
    IF site = "loop"
    THEN /\ IF args.limit # 0 /\ processed >= args.limit
            THEN pc' = "flush_batch" /\ site' = "final"
            ELSE pc' = "iter" /\ site' = site
         /\ UNCHANGED <<skip_log, skip_file>>
    ELSE /\ pc' = "done"
         /\ site' = site
         /\ skip_log' = AppendLines(skip_log, skip_file.buffer)
         /\ skip_file' = close(skip_file)

\* What model.tts can return for a list of texts: one wav per text (a wav is
\* named by its text), or a list that lacks the last, or one with a wav more.
ModelAnswers(ts) ==
    {SubSeq(ts \o <<0>>, 1, m) : m \in (Len(ts) - 1)..(Len(ts) + 1)}

\* remaining = limit - processed
remaining == args.limit - processed

\* a flush that passes the whole batch on
Unsliced(list) == list

\* texts[:remaining], when a limit is set
Sliced(list) ==
    IF args.limit # 0 /\ remaining < Len(list)
    THEN SubSeq(list, 1, remaining)
    ELSE list

\* flush_batch, lines 176-196: nothing to do, or the batch call
FlushBatch ==
    /\ pc = "flush_batch"
    /\ IF batch_texts = <<>> \/ (args.limit # 0 /\ remaining <= 0)
       THEN /\ FlushBatchReturns
            /\ UNCHANGED <<texts, paths, metas, wavs, saves, batch_failed, mark>>
       ELSE /\ texts' = Sliced(batch_texts)
            /\ paths' = Sliced(batch_paths)
            /\ metas' = Sliced(batch_meta)
            /\ saves' = <<>>
            /\ mark' = Len(AllLog)
            /\ \E raised \in BOOLEAN :
                  IF raised
                  THEN pc' = "degrade" /\ batch_failed' = TRUE /\ wavs' = <<>>
                  ELSE /\ pc' = "save" /\ batch_failed' = FALSE
                       /\ wavs' \in ModelAnswers(Sliced(batch_texts))
            /\ UNCHANGED <<site, skip_log, skip_file>>
    /\ UNCHANGED <<args, input, run, reader, processed, zi, artifacts,
                   batch_texts, batch_paths, batch_meta, skip_log0, text_locals>>

\* zip(paths, wavs, metas) stops at the shortest
ZipWavs == IF Len(paths) <= Len(wavs) THEN Len(paths) ELSE Len(wavs)

\* flush_batch, lines 197-201: one iteration of the loop that saves the
\* batch's wavs; torchaudio.save may raise, which leads to line 201
SaveWav ==
    /\ pc = "save"
    /\ IF zi < ZipWavs
       THEN \E ok \in BOOLEAN :
               IF ok
               THEN /\ artifacts' = artifacts \cup {paths[zi + 1]}
                    /\ processed' = processed + 1
                    /\ saves' = Append(saves, metas[zi + 1].row_index)
                    /\ zi' = zi + 1
                    /\ UNCHANGED <<pc, batch_failed>>
               ELSE /\ pc' = "degrade"
                    /\ batch_failed' = TRUE
                    /\ zi' = 0
                    /\ UNCHANGED <<artifacts, processed, saves>>
       ELSE /\ pc' = "flushed"
            /\ zi' = 0
            /\ UNCHANGED <<artifacts, processed, saves, batch_failed>>
    /\ UNCHANGED <<args, input, run, reader, site, batch_texts, batch_paths,
                   batch_meta, skip_log, skip_file, texts, paths, metas, wavs,
                   mark, skip_log0, text_locals>>

\* flush_batch, lines 202-217: one iteration of the per-record loop, and the
\* batch's own entry behind it
DegradeRow ==
    /\ pc = "degrade"
    /\ IF zi < Len(texts)
       THEN \E ok \in BOOLEAN :
               /\ zi' = zi + 1
               /\ pc' = pc
               /\ IF ok
                  THEN /\ artifacts' = artifacts \cup {paths[zi + 1]}
                       /\ processed' = processed + 1
                       /\ saves' = Append(saves, metas[zi + 1].row_index)
                       /\ UNCHANGED <<skip_log, skip_file>>
                  ELSE /\ skip_log' = log_skip(SkipLog,
                              SkipEntry(metas[zi + 1].row_index, metas[zi + 1].row_id,
                                        texts[zi + 1], "tts_error")).log
                       /\ skip_file' = log_skip(SkipLog,
                              SkipEntry(metas[zi + 1].row_index, metas[zi + 1].row_id,
                                        texts[zi + 1], "tts_error")).file
                       /\ UNCHANGED <<artifacts, processed, saves>>
       ELSE /\ skip_log' = log_skip(SkipLog, SkipEntry(0 - 1, 0, 0, "batch_error")).log
            /\ skip_file' = log_skip(SkipLog, SkipEntry(0 - 1, 0, 0, "batch_error")).file
            /\ pc' = "flushed"
            /\ zi' = 0
            /\ UNCHANGED <<artifacts, processed, saves>>
    /\ UNCHANGED <<args, input, run, reader, site, batch_texts, batch_paths,
                   batch_meta, texts, paths, metas, wavs, batch_failed, mark,
                   skip_log0, text_locals>>

\* flush_batch, lines 219-221: the batch is cleared and flush_batch returns
FlushReturn ==
    /\ pc = "flushed"
    /\ batch_texts' = <<>>
    /\ batch_paths' = <<>>
    /\ batch_meta' = <<>>
    /\ texts' = <<>>
    /\ paths' = <<>>
    /\ metas' = <<>>
    /\ wavs' = <<>>
    /\ saves' = <<>>
    /\ batch_failed' = FALSE
    /\ FlushBatchReturns
    /\ UNCHANGED <<args, input, run, reader, processed, zi, artifacts, mark,
                   skip_log0, text_locals>>

\* synthesize_csv, lines 223-254: an exception leaves the try block (from
\* find_invalid_tokens, from a write to the log, or one that "except
\* Exception" does not catch); the finally clause closes the log
AudioRaises ==
    /\ pc \in {"iter", "flush_batch", "save", "degrade", "flushed"}
    /\ pc' = "crashed"
    /\ err' = "Exception"
    /\ skip_log' = AppendLines(skip_log, skip_file.buffer)
    /\ skip_file' = close(skip_file)
    /\ UNCHANGED <<args, input, run, reader, processed, zi, site, artifacts,
                   batch_texts, batch_paths, batch_meta, texts, paths, metas,
                   wavs, saves, batch_failed, mark, skip_log0, text_files,
                   calls>>

\* synthesize_csv is run a second time on the same input and out_dir
AudioRerun ==
    /\ pc = "done"
    /\ run = 1
    /\ run' = run + 1
    /\ pc' = "iter"
    /\ site' = ""
    /\ reader' = 0
    /\ processed' = 0
    /\ batch_texts' = <<>>
    /\ batch_paths' = <<>>
    /\ batch_meta' = <<>>
    /\ mark' = 0
    /\ skip_log0' = skip_log
    /\ UNCHANGED <<args, input, zi, artifacts, skip_log, skip_file, texts,
                   paths, metas, wavs, saves, batch_failed, text_locals>>

(* ---------------------------------------- xtts_batch_three_voices.py: main *)
\* voice_names when --voice_names is not given: voice1 .. voice<n> for the n
\* voices of the command line
voice_names == [n \in 1..args.voices |-> n]

\* out_dir / name / f"{base}.wav"
VoicePath(name, base) == [dir |-> name, kind |-> base.kind, v |-> base.v]

\* a window that begins one row early
BeforeStartOffByOne(index) == index + 1 < args.start_row

\* if index < args.start_row
BeforeStart(index) == index < args.start_row

\* end_row = args.end_row if args.end_row > 0 else None;
\* if end_row is not None and index > end_row
AfterEnd(index) == args.end_row > 0 /\ index > args.end_row

\* the voices of a record whose file is to be generated (line 278)
VoicesToDo(base) ==
    SelectSeq(voice_names,
              LAMBDA name : ~(args.skip_existing /\ VoicePath(name, base) \in artifacts))

\* the service calls for the first k of these voices
VoiceCalls(index, base, k) ==
    [j \in 1..k |-> [index |-> index, voice |-> VoicesToDo(base)[j],
                     processed |-> processed,
                     existed |-> VoicePath(VoicesToDo(base)[j], base) \in artifacts]]

\* the state the audio and text pipelines keep, which xtts main leaves alone
xtts_frame == <<args, input, site, zi, run, audio_locals, text_files>>

\* main, lines 215-217: the row range is checked
XttsMain ==
    /\ pc = "xtts_main"
    /\ IF args.end_row # 0 /\ args.end_row < args.start_row
       THEN pc' = "exit2" /\ err' = "--end_row must be >= --start_row (or 0 for no end)."
       ELSE pc' = "xtts_loop" /\ err' = err
    /\ UNCHANGED <<reader, processed, calls, artifacts, xtts_frame>>

\* main, lines 268-302: one iteration of the loop over iter_words, with the
\* calls for all the voices; tts_to_file may raise, which nothing catches
XttsRow ==
    /\ pc = "xtts_loop"
    /\ IF reader < Len(input)
       THEN LET index == reader + 1
                row == input[index]
                text == ResolvedText(row)
                base == choose_filename(row, index)
                todo == VoicesToDo(base)
            IN /\ reader' = index
               /\ IF row = <<>> \/ BeforeStart(index)
                  THEN UNCHANGED <<pc, err, processed, calls, artifacts>>
                  ELSE IF AfterEnd(index)
                  THEN pc' = "done" /\ UNCHANGED <<err, processed, calls, artifacts>>
                  ELSE IF text = 0
                  THEN UNCHANGED <<pc, err, processed, calls, artifacts>>
                  ELSE \E k \in 0..Len(todo) : \E raised \in BOOLEAN :
                          /\ raised => k > 0
                          /\ ~raised => k = Len(todo)
                          /\ calls' = calls \o VoiceCalls(index, base, k)
                          /\ artifacts' = artifacts \cup
                                {VoicePath(todo[j], base) :
                                    j \in 1..(IF raised THEN k - 1 ELSE k)}
                          /\ IF raised
                             THEN /\ pc' = "crashed" /\ err' = "tts_to_file"
                                  /\ UNCHANGED processed
                             ELSE /\ processed' = processed + 1
                                  /\ err' = err
                                  /\ pc' = IF args.limit # 0 /\ processed + 1 >= args.limit
                                           THEN "done" ELSE pc
       ELSE /\ pc' = "done"
            /\ UNCHANGED <<reader, err, processed, calls, artifacts>>
    /\ UNCHANGED xtts_frame

(* ----------------------------------------------------------------- Init  *)
\* The output an earlier run over the same input left: the header and the
\* rows of the first k source rows (a source row beyond the input holds
\* word 1), with the answers of service version v; under a header without
\* the result column, the rows of that other table.
PriorWord(i) == IF i <= Len(input) THEN input[i] ELSE 1

PriorRow(i, v) ==
    <<WidCell(i), WordCell(PriorWord(i)), MeaningCell(StripWord(WordCell(PriorWord(i))), v)>>

PriorOutput(header, k, v) ==
    [exists |-> TRUE,
     lines |-> <<header>> \o [i \in 1..k |-> SubSeq(PriorRow(i, v), 1, Len(header))],
     torn |-> FALSE]

\* the audio pipelines are not run
AudioAtRest ==
    /\ artifacts = {}
    /\ batch_texts = <<>>
    /\ batch_paths = <<>>
    /\ batch_meta = <<>>
    /\ skip_log = Absent
    /\ skip_file = Closed
    /\ texts = <<>>
    /\ paths = <<>>
    /\ metas = <<>>
    /\ wavs = <<>>
    /\ saves = <<>>
    /\ batch_failed = FALSE
    /\ mark = 0
    /\ skip_log0 = Absent

\* normalize_item is not being called
NormalizeAtRest ==
    /\ item = None
    /\ normalized = <<>>
    /\ yielded = <<>>

\* the state of a process that has parsed its command line
InitRun ==
    /\ NormalizeAtRest
    /\ pc = "main"
    /\ site = ""
    /\ fout = FALSE
    /\ pending = <<>>
    /\ reader = 0
    /\ processed = 0
    /\ total_written = 0
    /\ batch_rows = <<>>
    /\ batch_words = <<>>
    /\ attempt = 0
    /\ last_err = ""
    /\ results = <<>>
    /\ zi = 0
    /\ rows = <<>>
    /\ err = ""
    /\ delays = <<>>
    /\ reply = NoReply
    /\ calls = <<>>
    /\ written = 0
    /\ run = 1
    /\ killed = ""
    /\ lost = FALSE
    /\ tries = 0
    /\ failed = FALSE
    /\ bak = Absent
    /\ tmp = Absent
    /\ disk0 = disk
    /\ origin = disk
    /\ AudioAtRest

\* inputs whose rows hold distinct non-empty words
Inputs == {[i \in 1..n |-> i] : n \in 0..MaxRows}

\* the pipeline on a well-formed input, with or without an output to resume
Init ==
    /\ args \in [batch : 1..MaxBatch, limit : 0..MaxLimit, start : 1..MaxStart,
                 retries : 0..MaxRetries, backoff : 1..MaxBackoff,
                 rewrite_first : {0}, overwrite : {FALSE},
                 resume : {FALSE}, no_resume : {FALSE}]
    /\ api_key = TRUE
    /\ fieldnames = <<"wid", "word">>
    /\ input \in Inputs
    /\ ver = 1
    /\ disk \in {Absent} \cup {PriorOutput(out_fields, k, 1) : k \in 0..MaxExisting}
    /\ InitRun

\* the pipeline with every batch size and retry count, without a limit or
\* with one, started afresh or resumed
InitLive ==
    /\ args \in [batch : 1..MaxBatch, limit : {0, MaxLimit}, start : {1},
                 retries : 0..MaxRetries, backoff : {1},
                 rewrite_first : {0}, overwrite : {FALSE},
                 resume : {FALSE}, no_resume : {FALSE}]
    /\ api_key = TRUE
    /\ fieldnames = <<"wid", "word">>
    /\ input \in Inputs
    /\ ver = 1
    /\ disk \in {Absent, PriorOutput(out_fields, 1, 1)}
    /\ InitRun

\* the pipeline under every combination of the options and of the files'
\* states that decides whether the run may start
InitConfig ==
    /\ args \in {a \in [batch : {1}, limit : {0}, start : 0..MaxStart,
                         retries : {1}, backoff : {1}, rewrite_first : {0},
                         overwrite : BOOLEAN, resume : BOOLEAN,
                         no_resume : BOOLEAN] : ~(a.resume /\ a.no_resume)}
    /\ api_key \in BOOLEAN
    /\ fieldnames \in {<<"wid", "word">>, <<"wid", "text">>, <<>>}
    /\ input \in Inputs
    /\ fieldnames = <<>> => input = <<>>
    /\ ver = 1
    /\ disk \in {Absent} \cup
                {PriorOutput(h, k, 1) :
                    h \in {<<"wid", "word", "meaning_pos">>, <<"wid", "word">>},
                    k \in 0..MaxExisting}
    /\ InitRun

\* the pipeline with resume permitted, on a service that may fail, in a
\* process that may be terminated and run again
InitInterrupt ==
    /\ args \in [batch : 1..MaxBatch, limit : 0..MaxLimit, start : 1..MaxStart,
                 retries : {1}, backoff : {1}, rewrite_first : {0},
                 overwrite : {FALSE}, resume : {FALSE}, no_resume : {FALSE}]
    /\ api_key = TRUE
    /\ fieldnames = <<"wid", "word">>
    /\ input \in Inputs
    /\ ver = 1
    /\ disk \in {Absent} \cup {PriorOutput(out_fields, k, 1) : k \in 0..MaxExisting}
    /\ InitRun

\* rewrite-first-N over the outputs completed runs leave, with a service
\* whose answers may have changed since
InitRewrite ==
    /\ args \in [batch : {1}, limit : {0}, start : {1}, retries : {1},
                 backoff : {1}, rewrite_first : (-1..MaxRewrite) \ {0},
                 overwrite : {FALSE}, resume : {FALSE}, no_resume : {FALSE}]
    /\ api_key = TRUE
    /\ fieldnames \in {<<"wid", "word">>, <<"wid", "text">>}
    /\ input \in Inputs
    /\ ver \in {1, 2}
    /\ disk \in {Absent} \cup
                {PriorOutput(h, k, 1) :
                    h \in {<<"wid", "word", "meaning_pos">>, <<"wid", "word">>},
                    k \in 0..(MaxExisting + 1)}
    /\ InitRun

\* The output a completed run with --start s left on a fresh file: the
\* header and the rows of the k source rows from row s on.
StartedOutput(s, k, v) ==
    [exists |-> TRUE,
     lines |-> <<out_fields>> \o [i \in 1..k |-> PriorRow(s + i - 1, v)],
     torn |-> FALSE]

\* rewrite-first-N over the outputs the pipeline leaves when it is started
\* at any source row
InitRewriteStart ==
    /\ args \in [batch : {1}, limit : {0}, start : {1}, retries : {1},
                 backoff : {1}, rewrite_first : 1..MaxRewrite,
                 overwrite : {FALSE}, resume : {FALSE}, no_resume : {FALSE}]
    /\ api_key = TRUE
    /\ fieldnames = <<"wid", "word">>
    /\ input \in Inputs
    /\ ver \in {1, 2}
    /\ disk \in {StartedOutput(s, k, 1) :
                    s \in 1..MaxStart, k \in 0..(MaxExisting + 1)}
    /\ \A l \in 2..Len(disk.lines) : disk.lines[l][1].a <= Len(input)
    /\ InitRun

\* inputs in which any rows hold an empty 'word' cell (word 0)
InputsWithBlanks ==
    {[i \in 1..n |-> IF i \in blank THEN 0 ELSE i] :
        n \in 0..MaxRows, blank \in SUBSET (1..MaxRows)}

\* the pipeline started afresh on an input with empty 'word' cells
InitBlank ==
    /\ args \in [batch : 1..MaxBatch, limit : {0}, start : {1}, retries : {1},
                 backoff : {1}, rewrite_first : {0}, overwrite : {FALSE},
                 resume : {FALSE}, no_resume : {FALSE}]
    /\ api_key = TRUE
    /\ fieldnames = <<"wid", "word">>
    /\ input \in InputsWithBlanks
    /\ ver = 1
    /\ disk = Absent
    /\ InitRun

\* the text pipeline is not run
TextAtRest ==
    /\ api_key = TRUE
    /\ fieldnames = <<>>
    /\ ver = 1
    /\ disk = Absent
    /\ bak = Absent
    /\ tmp = Absent
    /\ fout = FALSE
    /\ pending = <<>>
    /\ total_written = 0
    /\ batch_rows = <<>>
    /\ batch_words = <<>>
    /\ attempt = 0
    /\ last_err = ""
    /\ results = <<>>
    /\ rows = <<>>
    /\ err = ""
    /\ delays = <<>>
    /\ calls = <<>>
    /\ written = 0
    /\ disk0 = Absent
    /\ origin = Absent
    /\ killed = ""
    /\ lost = FALSE
    /\ tries = 0
    /\ failed = FALSE
    /\ reply = NoReply

\* the rows line i of an input can be: text and id; no text but a fallback;
\* neither; a text and an id of white space; a text alone; an empty line
AudioRowKinds(i) ==
    [plain |-> <<i, 0, i>>, fallback |-> <<0, i, i>>, notext |-> <<0, 0, i>>,
     blankid |-> <<i, 0, Blank>>, short |-> <<i>>, empty |-> <<>>]

\* the inputs of up to n rows of the given kinds
AudioInputs(n, kinds) ==
    UNION {{[i \in 1..m |-> AudioRowKinds(i)[k[i]]] : k \in [1..m -> kinds]} : m \in 0..n}

\* synthesize_csv has made out_dir and is about to read the input (line 223)
InitSynthesize ==
    /\ pc = "iter"
    /\ site = ""
    /\ reader = 0
    /\ processed = 0
    /\ zi = 0
    /\ run = 1
    /\ batch_texts = <<>>
    /\ batch_paths = <<>>
    /\ batch_meta = <<>>
    /\ skip_file = Closed
    /\ texts = <<>>
    /\ paths = <<>>
    /\ metas = <<>>
    /\ wavs = <<>>
    /\ saves = <<>>
    /\ batch_failed = FALSE
    /\ mark = 0
    /\ skip_log0 = skip_log
    /\ TextAtRest
    /\ NormalizeAtRest

\* one run of synthesize_csv into an empty out_dir
InitAudio ==
    /\ args \in [batch_size : 1..MaxBatchSize, limit : 0..MaxLimit,
                 skip_existing : {FALSE}, text_col : {0}, fallback_col : {1},
                 id_col : {2}]
    /\ input \in AudioInputs(MaxAudioRows, {"plain", "notext"})
    /\ artifacts = {}
    /\ skip_log = Absent
    /\ InitSynthesize

\* the log an earlier run left that logged one invalid row
PriorSkipLog ==
    [exists |-> TRUE,
     lines |-> <<SkipHeader, SkipEntry(1, 1, 1, "invalid_tokens")>>,
     torn |-> FALSE]

\* synthesize_csv run once and again over the same out_dir, which may hold
\* audio files and the log of earlier runs
InitAudioRuns ==
    /\ args \in [batch_size : 1..MaxBatch, limit : {0}, skip_existing : BOOLEAN,
                 text_col : {0}, fallback_col : {1}, id_col : {2}]
    /\ input \in AudioInputs(MaxRunRows, {"plain", "notext"})
    /\ artifacts \in {{}, {[kind |-> "id", v |-> 1]}}
    /\ skip_log \in {Absent, PriorSkipLog}
    /\ InitSynthesize

\* the files of an earlier run: row 1 under every voice, row 2 under the
\* first voice only
PriorVoiceFiles ==
    {{},
     {VoicePath(n, [kind |-> "id", v |-> 1]) : n \in 1..args.voices},
     {VoicePath(1, [kind |-> "id", v |-> 2])},
     {VoicePath(n, [kind |-> "id", v |-> 1]) : n \in 1..args.voices}
        \cup {VoicePath(1, [kind |-> "id", v |-> 2])}}

\* xtts main has parsed its command line and loaded the model
InitXtts ==
    /\ args \in [start_row : 1..MaxStartRow, end_row : 0..MaxEndRow,
                 limit : 0..MaxLimit, skip_existing : BOOLEAN,
                 voices : 1..MaxVoices, text_col : {0}, fallback_col : {1},
                 id_col : {2}]
    /\ input \in AudioInputs(MaxXttsRows, {"plain", "notext", "empty"})
    /\ artifacts \in PriorVoiceFiles
    /\ pc = "xtts_main"
    /\ site = ""
    /\ reader = 0
    /\ processed = 0
    /\ zi = 0
    /\ run = 1
    /\ batch_texts = <<>>
    /\ batch_paths = <<>>
    /\ batch_meta = <<>>
    /\ skip_log = Absent
    /\ skip_file = Closed
    /\ texts = <<>>
    /\ paths = <<>>
    /\ metas = <<>>
    /\ wavs = <<>>
    /\ saves = <<>>
    /\ batch_failed = FALSE
    /\ mark = 0
    /\ skip_log0 = Absent
    /\ TextAtRest
    /\ NormalizeAtRest

\* the strings of up to n characters: white space and two texts
Strings(n) ==
    UNION {[1..m -> {Space, MeaningCell(1, 1), MeaningCell(2, 1)}] : m \in 0..n}

\* the lists of up to n of the given values
Lists(n, values) == UNION {{List(l) : l \in [1..m -> values]} : m \in 0..n}

\* None, a number, and the strings of up to n characters
Scalars(n) == {None, Num(1)} \cup {Str(t) : t \in Strings(n)}

\* what an element of a list or a key of an object holds: nothing, an empty
\* or blank string, texts with and without white space around them
Elems ==
    {None, Str(<<>>), Str(<<Space>>), Str(<<MeaningCell(1, 1)>>),
     Str(<<Space, MeaningCell(2, 1), Space>>)}

\* the objects: none, one or two of the category keys, and none or one of
\* the meaning keys, which may hold a list
Dicts ==
    LET means == Elems \cup {Num(1)} \cup Lists(MaxItems - 1, Elems \ {None})
        catmaps == {<<>>}
                   \cup {[k \in {key} |-> v] :
                            key \in {"pos_zh", "pos", "part_of_speech"}, v \in Elems}
                   \cup {[k \in {"pos_zh", "pos"} |-> IF k = "pos" THEN v ELSE w] :
                            v \in Elems, w \in Elems}
        meanmaps == {<<>>}
                    \cup {[k \in {key} |-> v] :
                             key \in {"meaning_zh", "meaning", "meanings"}, v \in means}
    IN {Dict(c @@ m) : c \in catmaps, m \in meanmaps}

\* the values normalize_item is called with
Items == Scalars(MaxChars) \cup Lists(MaxItems, Elems \cup {Num(1)}) \cup Dicts

\* normalize_item is about to be called with one item of a service answer
InitNormalize ==
    /\ item \in Items
    /\ normalized = <<>>
    /\ yielded = <<>>
    /\ pc = "normalize_item"
    /\ args = [batch |-> 1, limit |-> 0, start |-> 1, retries |-> 1,
               backoff |-> 1, rewrite_first |-> 0, overwrite |-> FALSE,
               resume |-> FALSE, no_resume |-> FALSE]
    /\ input = <<>>
    /\ site = ""
    /\ reader = 0
    /\ processed = 0
    /\ zi = 0
    /\ run = 1
    /\ TextAtRest
    /\ AudioAtRest

Next ==
    \/ Main
    \/ OpenOutput
    \/ SkipRows
    \/ ReadRow
    \/ CallReturns
    \/ CallFails
    \/ CallRaises
    \/ WriteRow

Spec == Init /\ [][Next]_vars

\* the process is never suspended for ever: a step that can be taken is
\* taken (a service call ends by its timeout at the latest, a sleep ends)
SpecLive == InitLive /\ [][Next]_vars /\ WF_vars(Next)

SpecConfig == InitConfig /\ [][Next]_vars

SpecBlank == InitBlank /\ [][Next]_vars

NextRewrite ==
    \/ Main
    \/ RewriteReadInput
    \/ CallReturns
    \/ CallFails
    \/ CallRaises
    \/ RewriteReadOutput
    \/ RewriteBackup
    \/ RewriteWriteTmp
    \/ RewriteReplace

SpecRewrite == InitRewrite /\ [][NextRewrite]_vars

SpecRewriteStart == InitRewriteStart /\ [][NextRewrite]_vars

NextInterrupt ==
    \/ Next
    \/ Kill
    \/ Rerun

SpecInterrupt == InitInterrupt /\ [][NextInterrupt]_vars

NextAudio ==
    \/ IterWords
    \/ FlushBatch
    \/ SaveWav
    \/ DegradeRow
    \/ FlushReturn

SpecAudio == InitAudio /\ [][NextAudio]_vars

NextAudioRuns ==
    \/ NextAudio
    \/ AudioRerun

SpecAudioRuns == InitAudioRuns /\ [][NextAudioRuns]_vars

NextXtts ==
    \/ XttsMain
    \/ XttsRow

SpecXtts == InitXtts /\ [][NextXtts]_vars

\* iter_words is called on an input with a header
InitIterWords ==
    /\ args = [text_col |-> 0, fallback_col |-> 1, id_col |-> 2]
    /\ input \in AudioInputs(MaxAudioRows, {"plain", "fallback", "notext", "empty"})
    /\ pc = "iter_words"
    /\ site = ""
    /\ reader = 0
    /\ processed = 0
    /\ zi = 0
    /\ run = 1
    /\ AudioAtRest
    /\ TextAtRest
    /\ NormalizeAtRest

NextIterWords == IterNext

SpecIterWords == InitIterWords /\ [][NextIterWords]_vars

\* either pipeline, on its way to any of its exits
InitRelease == InitConfig \/ InitAudio

NextRelease ==
    \/ Next
    \/ WriteRaises
    \/ NextAudio
    \/ AudioRaises

SpecRelease == InitRelease /\ [][NextRelease]_vars

NextNormalize == NormalizeItem

SpecNormalize == InitNormalize /\ [][NextNormalize]_vars

(* ------------------------------------------------------------ the claims *)
\* the line the pipeline is to write for source row i
ExpectedLine(i) == <<WidCell(i), WordCell(input[i]), MeaningCell(input[i], ver)>>

ExpectedLines(from, to) == [j \in 1..(to - from + 1) |-> ExpectedLine(from + j - 1)]

\* C3: when every retry of a batch call has failed with a service error the
\* run is not aborted by that error (it degrades to per-record calls and
\* goes on).
C3_ExhaustedRetriesDoNotAbort == ~(pc = "crashed" /\ err \in ServiceErrors)

\* C4: with a limit L > 0 a run never writes more than L records.
C4_NeverMoreThanLimit == args.limit > 0 => written <= args.limit

\* the data rows the output held when the run started
Existing == Len(disk0.lines) - 1

\* C7: resuming (start index 1) on an output that holds k rows under the
\* expected header: no word of the first k source rows is ever sent to the
\* service, the existing rows stay, and a run that completes without a limit
\* and without a service failure has appended the rows k+1..n in order, so
\* the output holds exactly n data rows.
C7_ResumeSkipsExisting ==
    (disk0.exists /\ ExistingHeader(disk0) = out_fields /\ args.start = 1
        /\ ~args.overwrite /\ resume_allowed)
    => /\ \A c \in 1..Len(calls) : \A j \in 1..Len(calls[c]) : calls[c][j] > Existing
       /\ pc \in {"loop", "call", "write", "done"} => reader >= Existing
       /\ (pc = "done" /\ args.limit = 0 /\ ~failed)
          => /\ disk.lines = disk0.lines \o ExpectedLines(Existing + 1, Len(input))
             /\ Len(disk.lines) = 1 + Len(input)
             /\ ~disk.torn

C7_Witness ==
    /\ pc = "done" /\ args.limit = 0 /\ ~failed /\ args.start = 1
    /\ disk0.exists /\ Existing = 2 /\ Len(input) = 5 /\ written = 3

\* C8: call_with_retries makes at most R service calls; the wait behind the
\* k-th failed attempt (k from 0) is backoff * 2^k: the first wait is backoff
\* and each further one doubles; there is one wait per failed attempt and
\* none else, so a call that succeeds at its third attempt with backoff 2 has
\* waited 2 and then 4.
C8_RetryBackoff ==
    /\ tries <= args.retries
    /\ Len(delays) >= 1 => delays[1] = args.backoff
    /\ \A k \in 1..(Len(delays) - 1) : delays[k + 1] = 2 * delays[k]
    /\ pc = "call" => Len(delays) = tries
    /\ pc = "write" => Len(delays) = tries - 1

C8_Witness ==
    /\ pc = "write" /\ args.backoff = 2 /\ tries = 3 /\ delays = <<2, 4>>

\* the sizes of the calls that m admitted rows make with batch size b
ExpectedSizes(m, b) ==
    [i \in 1..((m + b - 1) \div b) |-> IF i * b <= m THEN b ELSE m % b]

\* C9: without a limit and while no service call fails, a call is issued
\* exactly when the buffer holds batch-size rows, or the source is exhausted
\* and the buffer is not empty; a completed run has made ceil(m/b) calls for
\* its m admitted rows, of size b except a last one of m mod b, and has
\* written every admitted row.
C9_BatchFlush ==
    (args.limit = 0 /\ ~failed)
    => /\ pc = "call" => \/ Len(batch_words) = args.batch
                         \/ (reader = Len(input) /\ batch_words # <<>>
                               /\ Len(batch_words) < args.batch)
       /\ pc = "loop" => Len(batch_words) < args.batch
       /\ pc = "done" =>
            LET m == Len(input) - skip_target IN
            /\ [i \in 1..Len(calls) |-> Len(calls[i])] = ExpectedSizes(m, args.batch)
            /\ written = m
            /\ SubSeq(disk.lines, Len(disk.lines) - m + 1, Len(disk.lines))
                  = ExpectedLines(skip_target + 1, Len(input))

C9_Witness ==
    /\ pc = "done" /\ args.limit = 0 /\ ~failed /\ args.batch = 2
    /\ [i \in 1..Len(calls) |-> Len(calls[i])] = <<2, 2, 1>>
    /\ written = 5 /\ Len(disk.lines) = 6

\* the output the run found has another header than the expected one
HeaderDiffers == disk0.exists /\ ExistingHeader(disk0) # out_fields

\* C5: a run that ends with a fatal configuration error has left the output
\* file exactly as it was when the run started.
C5_FatalBeforeMutation == pc = "fatal" => disk = disk0

\* the run has opened its output handle
Opened ==
    \/ pc \in {"skip", "loop", "call", "write", "done", "crashed"}
    \/ pc = "fatal" /\ err \in {"--start must be >= 1",
                                "Skip target exceeds input rows; aborting."}

\* C6 as stated: an existing output whose header differs from the expected
\* one makes the run fail in every mode, so the run never opens its output.
C6_MismatchFatalInEveryMode ==
    HeaderDiffers => ~Opened

\* C6 as amended: without overwrite such an output makes the run fail before
\* it opens or changes the output, resume permitted or not; with overwrite
\* the run opens the output and rebuilds it under the expected header.
C6_MismatchFatalUnlessOverwrite ==
    HeaderDiffers
    => /\ ~args.overwrite => (~Opened /\ disk = disk0 /\ calls = <<>>)
       /\ (args.overwrite /\ Opened)
             => Head(Close(disk, pending).lines) = out_fields

C6_Witness ==
    /\ HeaderDiffers /\ ~args.overwrite
    /\ resume_allowed /\ api_key
    /\ pc = "fatal" /\ err = "Output header mismatch. Use --overwrite to rebuild."

\* the points between two batch flushes: a batch's rows have been written
\* and the next batch's rows have not begun to be
BetweenFlushes == {"loop", "call"}

\* The number of rows an uninterrupted run appends to an output that holds k
\* rows: all the rows behind the skip target without a limit; with a limit L
\* whole batches until the total reaches L, and no more than the input has.
Batches(k) ==
    IF k >= args.limit THEN 0
    ELSE (args.limit - k + args.batch - 1) \div args.batch

Appended(k, skip) ==
    LET avail == Len(input) - skip
        want == Batches(k) * args.batch
    IN IF args.limit = 0 \/ avail <= want THEN avail ELSE want

\* the output an uninterrupted run without a service failure leaves, given
\* the output f it starts from (f absent, or under the expected header with
\* no more rows than the skip target allows)
UninterruptedOutput(f) ==
    LET k == IF f.exists THEN Len(f.lines) - 1 ELSE 0
        skip == IF k >= args.start - 1 THEN k ELSE args.start - 1
        head == IF f.exists THEN f.lines ELSE <<out_fields>>
    IN [exists |-> TRUE,
        lines |-> head \o ExpectedLines(skip + 1, skip + Appended(k, skip)),
        torn |-> FALSE]

\* what a first run that is not interrupted leaves is UninterruptedOutput
UninterruptedIsTheRunsOutput ==
    (run = 1 /\ pc = "done" /\ ~failed) => disk = UninterruptedOutput(origin)

\* C1: a run terminated between two batch flushes and run again with the
\* same command line (resume permitted, the service answering as before and
\* not failing) leaves the output an uninterrupted run leaves.  Stated for a
\* termination that lost nothing of what the first run had written.
C1_RerunEqualsUninterrupted ==
    (run = 2 /\ pc = "done" /\ killed \in BetweenFlushes /\ ~lost /\ ~failed)
    => disk = UninterruptedOutput(origin)

\* C2: when the process is terminated between two batch flushes, with at
\* least one batch completed, every row written so far is in the output
\* file: the file is the header and the whole rows of the completed batches.
C2_FlushedBeforeNextBatch ==
    (pc = "killed" /\ killed \in BetweenFlushes /\ written > 0) => ~lost

\* the count given to --rewrite-first
N == args.rewrite_first

\* C10: once rewrite-first-N has copied the output, the backup is the output
\* as it was before the rewrite; when the rewrite has completed, the output
\* has the header and the number of rows it had, every row has the cells it
\* had, and a cell that differs is the result cell of one of the first N
\* rows.
C10_RewriteFrame ==
    /\ pc \in {"write_tmp", "replace", "done"} /\ N # 0 => bak = disk0
    /\ (pc = "done" /\ N # 0)
       => /\ disk.exists /\ ~disk.torn
          /\ Len(disk.lines) = Len(disk0.lines)
          /\ disk.lines[1] = disk0.lines[1]
          /\ \A r \in 2..Len(disk.lines) :
                /\ Len(disk.lines[r]) = Len(disk0.lines[r])
                /\ \A j \in 1..Len(disk.lines[r]) :
                      disk.lines[r][j] # disk0.lines[r][j]
                      => (r - 1 <= N /\ disk0.lines[1][j] = "meaning_pos")
          /\ \A r \in 1..N :
                disk.lines[r + 1][ColumnIndex(disk0.lines[1], "meaning_pos")]
                   = MeaningCell(input[r], ver)

C10_Witness ==
    /\ pc = "done" /\ N = 2 /\ Len(disk0.lines) = 4 /\ bak = disk0
    /\ disk.lines[2] # disk0.lines[2] /\ disk.lines[3] # disk0.lines[3]
    /\ disk.lines[4] = disk0.lines[4]

\* the conditions under which rewrite-first-N is to refuse: the count, the
\* input's rows, the result column and the rows of the output it found
RewriteRefused ==
    \/ N < 1
    \/ Len(input) < N
    \/ disk0.exists /\ ~HasColumn(ExistingHeader(disk0), "meaning_pos")
    \/ disk0.exists /\ Existing < N

\* C11: rewrite-first-N, given a count below 1, an input of fewer than N
\* rows, an output without the result column or with fewer than N rows,
\* never gets to the backup: it ends in a failure; and whenever it has
\* failed, for one of these reasons or because the service call exhausted
\* its retries, the output is as it was and neither the backup nor the
\* temporary file exists.
C11_RewriteFailsClean ==
    N # 0
    => /\ RewriteRefused
          => pc \in {"main", "rewrite_first_rows", "call", "read_output",
                     "fatal", "crashed"}
       /\ pc \in {"main", "rewrite_first_rows", "call", "read_output",
                  "fatal", "crashed"}
          => (disk = disk0 /\ bak = Absent /\ tmp = Absent)
       /\ (pc = "call" /\ ~InRange(attempt, args.retries)) => tries = args.retries

C11_Witness ==
    /\ N = 2 /\ pc = "fatal" /\ err = "Output has fewer rows than --rewrite-first"
    /\ disk0.exists /\ Existing = 1 /\ tries = 1
    /\ disk = disk0 /\ bak = Absent /\ tmp = Absent

\* C11, the exhausted retries: the run has ended with the service's error
C11_WitnessExhausted ==
    /\ N = 2 /\ pc = "crashed" /\ err \in ServiceErrors /\ disk0.exists

\* the data lines the run has written, flushed or still buffered
WrittenLines ==
    LET all == Close(disk, pending).lines IN SubSeq(all, 2, Len(all))

\* C16: a record whose stripped 'word' cell is empty is never admitted: its
\* word is in no batch and in no service call, and no output line holds it.
C16_BlankNeverAdmitted ==
    /\ \A j \in 1..Len(batch_words) : batch_words[j] # 0
    /\ \A c \in 1..Len(calls) : \A j \in 1..Len(calls[c]) : calls[c][j] # 0
    /\ \A l \in 1..Len(WrittenLines) : WrittenLines[l][2] # EmptyCell

\* everything the run has put into the output, flushed or still buffered
AllLines == Close(disk, pending).lines

C17_WitnessOverwrite ==
    /\ disk0.exists /\ Existing = 2 /\ args.overwrite /\ pc = "done"
    /\ written = 3 /\ Len(disk.lines) = 4

C17_WitnessResume ==
    /\ disk0.exists /\ Existing = 2 /\ ~args.overwrite /\ ~args.no_resume
    /\ pc = "done" /\ written = 3 /\ Len(disk.lines) = 6

\* the data rows the output holds when the run has opened it
InOutput == IF disk0.exists /\ ~args.overwrite THEN Existing ELSE 0

\* max(start index - 1, rows already in the output)
SkipExpected == IF InOutput >= args.start - 1 THEN InOutput ELSE args.start - 1

\* C18: a run that gets to process rows has skipped exactly
\* max(start - 1, rows in the output) source rows: the first row it admits is
\* the one behind them; a run whose input has fewer rows than that ends
\* with the fatal error of the skip check, and only such a run does, and it
\* has called no service.
C18_SkipTarget ==
    /\ pc \in {"loop", "call", "write", "done", "crashed"}
       => /\ reader >= SkipExpected
          /\ Len(input) >= SkipExpected
          /\ (pc = "loop" /\ batch_words = <<>> /\ calls = <<>> /\ written = 0)
             => reader = SkipExpected
          /\ batch_words # <<>> /\ calls = <<>> => batch_words[1] = SkipExpected + 1
          /\ calls # <<>> => calls[1][1] = SkipExpected + 1
    /\ (pc = "fatal" /\ Opened /\ args.start >= 1)
       => (Len(input) < SkipExpected /\ calls = <<>> /\ written = 0
             /\ err = "Skip target exceeds input rows; aborting.")

C18_Witness ==
    /\ pc = "call" /\ calls = <<>> /\ args.start = 2 /\ InOutput = 2
    /\ batch_words = <<3>> /\ Len(input) = 5

\* C18, the abort: the start index asks for more rows than the input has
C18_WitnessAbort ==
    /\ pc = "fatal" /\ err = "Skip target exceeds input rows; aborting."
    /\ args.start = 3 /\ InOutput = 1 /\ Len(input) = 1 /\ calls = <<>>

\* C19: in call_with_retries an answer whose number of items differs from
\* the number of words is not accepted: the attempt is a failed one, it is
\* followed by the wait of its rank (backoff * 2^k behind attempt k, as
\* behind an attempt that raised), and the call is tried again unless the
\* attempts are used up; the result the call returns has one item per word.
C19_MismatchIsRetried ==
    (pc \in {"call", "write", "read_output", "crashed"} /\ reply # NoReply)
    => /\ (reply.raised \/ reply.items # Len(batch_words))
          => /\ pc \in {"call", "crashed"}
             /\ attempt = tries /\ Len(delays) = tries
             /\ delays[tries] = args.backoff * Pow2(tries - 1)
             /\ last_err = (IF reply.raised THEN "ServiceError"
                                            ELSE "Output length mismatch")
       /\ pc \in {"write", "read_output"}
          => /\ Len(results) = Len(batch_words)
             /\ reply = [raised |-> FALSE, items |-> Len(batch_words)]
             /\ Len(delays) = tries - 1
       /\ pc = "crashed" /\ err \in ServiceErrors => tries = args.retries

C19_Witness ==
    /\ pc = "call" /\ Len(batch_words) = 2 /\ args.backoff = 2 /\ args.retries = 3
    /\ reply = [raised |-> FALSE, items |-> 3] /\ delays = <<2, 4>>

\* C19, the result: a mismatch, then an answer that is accepted
C19_WitnessAccepted ==
    /\ pc = "write" /\ Len(batch_words) = 2 /\ last_err = "Output length mismatch"
    /\ tries = 2 /\ Len(results) = 2

\* the entries the log has gained since the flush began (a header the flush
\* made the log begin with is no entry)
Gained ==
    LET new == SubSeq(AllLog, mark + 1, Len(AllLog)) IN
    IF new # <<>> /\ Head(new) = SkipHeader THEN Tail(new) ELSE new

\* the positions in a sequence that hold a value meeting a test
Where(seq, Test(_)) == {i \in 1..Len(seq) : Test(seq[i])}

IsRecordError(e) == e.reason = "tts_error"

\* C12: at the end of a flush whose batch call failed and in which exactly
\* one record failed under the per-record call: the log has gained one entry
\* for that record (its row index, identifier and text) and, apart from it,
\* only the batch's own entry, which names no row; every other record of the
\* flush has its audio file; and a run ends only when the input is exhausted
\* or the limit reached, never at a failure.
C12_OneFailureIsolated ==
    /\ (pc = "flushed" /\ batch_failed
          /\ Cardinality(Where(Gained, IsRecordError)) = 1)
       => LET e == Gained[CHOOSE i \in Where(Gained, IsRecordError) : TRUE]
              hit == {k \in 1..Len(metas) : metas[k].row_index = e.row_index}
          IN /\ Cardinality(hit) = 1
             /\ \A k \in hit :
                   /\ e = SkipEntry(metas[k].row_index, metas[k].row_id,
                                    texts[k], "tts_error")
                   /\ Gained = <<e, [row_index |-> 0 - 1, row_id |-> 0, text |-> 0,
                                     reason |-> "batch_error"]>>
                   /\ \A j \in (1..Len(metas)) \ {k} :
                         /\ paths[j] \in artifacts
                         /\ \E n \in 1..Len(saves) : saves[n] = metas[j].row_index
    /\ pc = "done"
       => (reader = Len(input) \/ (args.limit # 0 /\ processed >= args.limit))

C12_Witness ==
    /\ pc = "flushed" /\ batch_failed /\ Len(texts) = 3
    /\ Cardinality(Where(Gained, IsRecordError)) = 1
    /\ Len(Gained) = 2 /\ Gained[1].row_index = metas[2].row_index
    /\ saves = <<metas[1].row_index, metas[3].row_index>>
    /\ reader < Len(input)

\* the outcomes a record of the flush has had: the times its audio was saved
\* and the entries the log gained for its row index
Outcomes(k) ==
    Cardinality({n \in 1..Len(saves) : saves[n] = metas[k].row_index})
    + Cardinality({n \in 1..Len(Gained) : Gained[n].row_index = metas[k].row_index})

\* C13: at the end of a flush every record that was passed to the service
\* has exactly one outcome: its audio file was written, or the log has an
\* entry with its row index.
C13_ExactlyOneOutcome ==
    pc = "flushed" => \A k \in 1..Len(metas) : Outcomes(k) = 1

\* C13, the weaker half: no record passed to the service is left with
\* neither outcome
C13_SomeOutcome ==
    pc = "flushed" => \A k \in 1..Len(metas) : Outcomes(k) >= 1

\* whether one sequence begins with another
StartsWith(seq, prefix) ==
    Len(seq) >= Len(prefix) /\ SubSeq(seq, 1, Len(prefix)) = prefix

\* C20: the log file exists only if it existed when the run started or the
\* run has logged a failure, and a run that ends without one leaves the log
\* as it found it; what the log held when the run started stays at its
\* head, unchanged, in this run and in the next; and the log's first line is
\* the header and no other line is.
C20_FailureLog ==
    /\ skip_log.exists => (skip_log0.exists \/ Len(AllLog) >= 2)
    /\ skip_file.open => Len(AllLog) > Len(skip_log0.lines)
    /\ (pc = "done" /\ Len(AllLog) = Len(skip_log0.lines))
       => skip_log = skip_log0
    /\ StartsWith(AllLog, skip_log0.lines)
    /\ StartsWith(skip_log.lines, skip_log0.lines)
    /\ pc = "done" => (~skip_file.open /\ skip_log.lines = AllLog)
    /\ AllLog # <<>>
       => /\ AllLog[1] = SkipHeader
          /\ \A i \in 2..Len(AllLog) : AllLog[i] # SkipHeader

\* a second run has added its failures to the log the first run created
C20_Witness ==
    /\ run = 2 /\ pc = "done" /\ skip_log.exists
    /\ Len(skip_log0.lines) >= 2 /\ Len(skip_log.lines) > Len(skip_log0.lines)
    /\ skip_log.lines[1] = SkipHeader

\* C20, the run without a failure: it has ended and there is no log
C20_WitnessNoLog ==
    /\ pc = "done" /\ processed = 2 /\ ~skip_log.exists


(* C14: in xtts main a record is sent to the service only if
   start_row <= index <= end_row (end_row 0: no end), its resolved text is
   not empty and fewer than limit records were processed before it (limit 0:
   no limit); a record that violates one of these is excluded without an
   error (the run ends normally, and without skip_existing every other
   record is sent for every voice), and no record is processed after
   end_row or once the limit is reached.                                   *)
Sent == {calls[c].index : c \in DOMAIN calls}

SentBefore(c) == {calls[d].index : d \in 1..(c - 1)} \ {calls[c].index}

InWindow(i) ==
    /\ args.start_row <= i
    /\ args.end_row = 0 \/ i <= args.end_row

Admissible(i) ==
    /\ i \in 1..Len(input)
    /\ InWindow(i)
    /\ input[i] # <<>>
    /\ ResolvedText(input[i]) # 0

Rank(i) == Cardinality({j \in 1..(i - 1) : Admissible(j)})

C14_Windowing ==
    /\ \A c \in DOMAIN calls :
          /\ Admissible(calls[c].index)
          /\ args.limit > 0 =>
                /\ calls[c].processed < args.limit
                /\ Cardinality(SentBefore(c)) < args.limit
    /\ args.limit > 0 => processed <= args.limit
    /\ (args.limit > 0 /\ processed >= args.limit) => pc # "xtts_loop"
    /\ (args.end_row > 0 /\ reader > args.end_row /\ input[reader] # <<>>)
          => pc # "xtts_loop"
    /\ pc = "done" => err = ""
    /\ pc = "crashed" => calls # <<>>
    /\ pc = "exit2" => (calls = <<>> /\ args.end_row < args.start_row)
    /\ (pc = "done" /\ ~args.skip_existing) =>
          \A i \in 1..Len(input) :
             (Admissible(i) /\ (args.limit = 0 \/ Rank(i) < args.limit)) =>
                \A n \in 1..args.voices :
                   \E c \in DOMAIN calls :
                      calls[c].index = i /\ calls[c].voice = n

\* C14 witness: a run over three rows with text and the window 2..2 ends
\* normally having sent row 2 only
C14_Witness ==
    /\ pc = "done"
    /\ args.start_row = 2
    /\ args.end_row = 2
    /\ Len(input) = 3
    /\ \A i \in 1..3 : input[i] # <<>> /\ ResolvedText(input[i]) # 0
    /\ Sent = {2}

\* C14 witness: with limit 1 the run ends after the first record with text,
\* leaving a later record with text unsent
C14_WitnessLimit ==
    /\ pc = "done"
    /\ args.limit = 1
    /\ ~args.skip_existing
    /\ \E i \in 1..Len(input) : Admissible(i) /\ Rank(i) = 1
    /\ Cardinality(Sent) = 1

(* C15: with skip_existing, a record whose file exists for every voice is
   not admitted: no service call is made for an existing file, the record
   does not count against the limit, and so a run with limit L that sent
   fewer than L records leaves no record of the window without its files.  *)
HasAllFiles(i) ==
    \A n \in 1..args.voices :
       VoicePath(n, choose_filename(input[i], i)) \in artifacts

C15_ExistingNotAdmitted ==
    args.skip_existing =>
       /\ \A c \in DOMAIN calls : ~calls[c].existed
       /\ processed <= Cardinality(Sent)
       /\ (pc = "done" /\ args.limit > 0 /\ Cardinality(Sent) < args.limit) =>
             \A i \in 1..Len(input) : Admissible(i) => HasAllFiles(i)


\* the data lines this run has appended, flushed or still buffered
RunLines ==
    LET from == IF disk0.exists THEN Len(disk0.lines) ELSE 1
    IN SubSeq(AllLines, from + 1, Len(AllLines))

(* C21: within a run the output rows are appended in the order their
   records were admitted, that is with strictly increasing source index,
   each row holding the cells of its source row and the service result for
   that row's word; and inside a batch the i-th result is attached to the
   i-th record of the batch.                                               *)
C21_OrderPreserved ==
    LET ls == RunLines IN
    /\ Len(ls) = written
    /\ \A l \in 1..Len(ls) :
          /\ ls[l][1].kind = "wid"
          /\ ls[l][1].a \in 1..Len(input)
          /\ l > 1 => ls[l - 1][1].a < ls[l][1].a
          /\ ls[l][2] = WordCell(input[ls[l][1].a])
          /\ ls[l][3] = MeaningCell(input[ls[l][1].a], ver)
    /\ pc = "write" =>
          \A j \in 1..zi :
             ls[Len(ls) - zi + j]
                = batch_rows[j] \o <<CellOf(normalize_item(results[j]))>>

\* C21 witness: a resumed run with batch size 2 has appended three rows in
\* two batches
C21_Witness ==
    /\ pc = "done"
    /\ args.batch = 2
    /\ disk0.exists
    /\ written = 3
    /\ Len(calls) >= 2


\* a string is blank when it holds white space only
IsBlank(s) == \A i \in 1..Len(s) : s[i] = Space

\* t is s without the white space at its ends
IsTrimOf(t, s) ==
    /\ t # <<>> => (t[1] # Space /\ t[Len(t)] # Space)
    /\ \E i \in 0..Len(s) : \E j \in 0..Len(s) :
          /\ i + Len(t) + j = Len(s)
          /\ SubSeq(s, i + 1, i + Len(t)) = t
          /\ IsBlank(SubSeq(s, 1, i))
          /\ IsBlank(SubSeq(s, i + Len(t) + 1, Len(s)))

\* the elements of a list that are not blank, as texts, trimmed
Elements(items) ==
    LET kept == SelectSeq(items, LAMBDA x : ~IsBlank(str(x)))
    IN [i \in 1..Len(kept) |-> strip(str(kept[i]))]

\* the first non-empty value under the given keys of an object, None if
\* there is none
FirstNonEmpty(d, keys) ==
    IF \E i \in 1..Len(keys) : Truthy(get(d, keys[i]))
    THEN get(d, keys[CHOOSE i \in 1..Len(keys) :
                        /\ Truthy(get(d, keys[i]))
                        /\ \A j \in 1..(i - 1) : ~Truthy(get(d, keys[j]))])
    ELSE None

Category(d) == FirstNonEmpty(d, <<"pos_zh", "pos", "part_of_speech">>)

\* the meanings of an object as one text: a list's elements joined
MeaningsText(d) ==
    LET m == FirstNonEmpty(d, <<"meaning_zh", "meaning", "meanings">>)
    IN IF m.shape = "list" THEN join(Semicolon, Elements(m.items)) ELSE str(m)

IsString(s) ==
    /\ DOMAIN s = 1..Len(s)
    /\ \A i \in 1..Len(s) :
          s[i].kind \in {"space", "meaning", "semicolon", "colon", "repr", "json"}

(* C22: normalize_item is total and deterministic: it returns a string for
   every item; a string maps to itself trimmed; a list maps to its trimmed
   non-empty elements joined by the full-width semicolon; an object with a
   non-empty category and non-empty meanings maps to the category, the
   full-width colon and the meanings, a list of meanings joined by the
   full-width semicolon.                                                   *)
C22_NormalizeTotal ==
    pc = "returned" =>
       /\ Len(normalized) = 1
       /\ IsString(normalized[1])
       /\ item.shape = "str" => IsTrimOf(normalized[1], item.text)
       /\ item.shape = "list" =>
             normalized[1] = join(Semicolon, Elements(item.items))
       /\ (/\ item.shape = "dict"
           /\ Category(item) # None
           /\ FirstNonEmpty(item, <<"meaning_zh", "meaning", "meanings">>) # None
           /\ MeaningsText(item) # <<>>)
             => normalized[1] = str(Category(item)) \o <<Colon>>
                                   \o strip(MeaningsText(item))

\* C22 witness: a list of two elements, one of them blank, has been
\* normalized to the other element
C22_Witness ==
    /\ pc = "returned"
    /\ item = List(<<Str(<<Space>>), Str(<<Space, MeaningCell(2, 1), Space>>)>>)
    /\ normalized = <<(<<MeaningCell(2, 1)>>)>>

\* C22 witness: an object with a category and a list of meanings has been
\* normalized to category, colon, meaning
C22_WitnessObject ==
    /\ pc = "returned"
    /\ item.shape = "dict"
    /\ get(item, "pos") = Str(<<MeaningCell(1, 1)>>)
    /\ get(item, "meanings") = List(<<Str(<<Space, MeaningCell(2, 1), Space>>)>>)
    /\ normalized = <<(<<MeaningCell(1, 1), Colon, MeaningCell(2, 1)>>)>>


\* the run has ended: by returning, by SystemExit, or by an exception
Exited == pc \in {"done", "fatal", "crashed"}

(* C23: the output handle of the text pipeline and the Failure Log handle
   of the audio pipeline are released on every exit path once acquired: at
   normal completion, at a fatal configuration error raised after the
   opening, and when a service or write exception leaves the processing
   loop; what they had buffered is in the file.                            *)
C23_HandlesReleased ==
    Exited =>
       /\ ~fout
       /\ pending = <<>>
       /\ ~skip_file.open
       /\ skip_file.buffer = <<>>

\* C23 witness: the text pipeline has left its write loop by an exception,
\* with the header it had buffered now in the file
C23_Witness ==
    /\ pc = "crashed"
    /\ err = "WriteError"
    /\ ~disk0.exists
    /\ disk.lines # <<>>

\* C23 witness: a fatal configuration error after the output was opened
C23_WitnessFatal ==
    /\ pc = "fatal"
    /\ err = "--start must be >= 1"
    /\ ~disk0.exists
    /\ disk.exists

\* C23 witness: the audio pipeline has logged an entry and ended normally
C23_WitnessLogDone ==
    /\ pc = "done"
    /\ skip_log.exists
    /\ Len(skip_log.lines) >= 2

\* C23 witness: the audio pipeline has logged an entry and was left by an
\* exception
C23_WitnessLogRaised ==
    /\ pc = "crashed"
    /\ err = "Exception"
    /\ Len(skip_log.lines) >= 2


(* C24: iter_words yields records whose 1-based index is strictly
   increasing in file order and never reused; an empty data row yields no
   record but still consumes its index, so that a yielded index is the
   row's position among all the data rows behind the header; every row
   that is not empty is yielded, with its resolved text.                   *)
C24_IndexIsPosition ==
    /\ \A k \in 1..Len(yielded) :
          /\ yielded[k].index \in 1..reader
          /\ k > 1 => yielded[k - 1].index < yielded[k].index
          /\ yielded[k].row = input[yielded[k].index]
          /\ yielded[k].row # <<>>
          /\ yielded[k].text =
                (IF yielded[k].row[1] # 0 THEN yielded[k].row[1]
                 ELSE yielded[k].row[2])
    /\ \A i \in 1..reader :
          input[i] # <<>> => \E k \in 1..Len(yielded) : yielded[k].index = i
    /\ Len(yielded) = Cardinality({i \in 1..reader : input[i] # <<>>})

\* C24 witness: behind an empty first row, the second row has been yielded
\* with index 2, and the input is exhausted
C24_Witness ==
    /\ pc = "exhausted"
    /\ Len(input) >= 3
    /\ input[1] = <<>>
    /\ Len(yielded) >= 2
    /\ yielded[1].index = 2


(* C25: in synthesize_csv with a limit L > 0 the number of distinct
   artifacts one run writes never exceeds L, whatever the batch size and
   whichever batch calls, saves and per-record calls fail: a flushed batch
   is cut to the allowance that remains when the flush begins, and no batch
   is passed to the service once the allowance is used up.                 *)
C25_ArtifactsWithinLimit ==
    args.limit > 0 =>
       /\ Cardinality(artifacts) <= args.limit
       /\ pc \in {"save", "degrade", "flushed"} =>
             /\ texts # <<>>
             /\ Len(texts) <= args.limit - (processed - Len(saves))

\* C25 witness: with limit 2 and batch size 3 a run over at least three
\* rows with text has ended with two artifacts, after a batch that failed
C25_Witness ==
    /\ pc = "done"
    /\ args.limit = 2
    /\ args.batch_size = 3
    /\ Cardinality({i \in 1..Len(input) : ResolvedText(input[i]) # 0}) >= 3
    /\ Cardinality(artifacts) = 2
    /\ \E l \in 1..Len(skip_log.lines) : skip_log.lines[l].reason = "batch_error"


(* C26: the count synthesize_csv returns equals the number of distinct
   records whose artifact was written during the run, also when a batch
   fails part-way through its saves and is then run again record by
   record.                                                                 *)
C26_CountIsArtifacts ==
    pc = "done" => processed = Cardinality(artifacts)


(* C27: after rewrite-first-N the result cell of each of the first N output
   rows is the service result for the word that same output row holds, for
   every output the pipeline produces, one created with a start index
   greater than 1 included.                                                *)
C27_RewriteMatchesRow ==
    (pc = "done" /\ args.rewrite_first > 0) =>
       \A i \in 1..args.rewrite_first :
          disk.lines[i + 1][3] = MeaningCell(StripWord(disk.lines[i + 1][2]), ver)


(* C28: for every retry count R >= 0 call_with_retries ends in one of two
   ways: it returns the result of its first successful attempt, after at
   most R attempts, or after exactly R failed attempts it raises the error
   of the last of them; with R = 0 it makes no call and still ends with a
   service error, not with some other failure.                             *)
C28_ReturnsOrRaisesLast ==
    /\ pc = "write" =>
          /\ tries \in 1..args.retries
          /\ Len(delays) = tries - 1
          /\ reply = Returned(results)
    /\ pc = "crashed" =>
          /\ tries = args.retries
          /\ Len(delays) = args.retries
          /\ err \in ServiceErrors
          /\ err = last_err


(* C29: the limit is compared with the number of rows in the output, those
   of earlier runs included: a resumed run that finds k >= L > 0 rows in
   the output admits no record, makes no service call and leaves the output
   as it was.                                                              *)
C29_LimitCountsExisting ==
    (disk0.exists /\ ~args.overwrite /\ args.limit > 0 /\ Existing >= args.limit)
    => /\ calls = <<>>
       /\ batch_words = <<>>
       /\ written = 0
       /\ AllLines = disk0.lines
       /\ pc \notin {"call", "write"}
       /\ pc \in {"done", "fatal"} => disk = disk0

\* C29 witness: a run with limit 1 on an output of two rows and an input of
\* more rows has ended normally without a call
C29_Witness ==
    /\ pc = "done"
    /\ disk0.exists
    /\ Existing = 2
    /\ args.limit = 1
    /\ Len(input) > 2
    /\ calls = <<>>
    /\ disk = disk0


(* C30: for every finite input, batch size >= 1 and retry count R a run of
   the text pipeline eventually ends, completed or aborted, whatever the
   service does: a batch makes at most R service calls, and a source row is
   read at most once (the reader only moves forward, and never beyond the
   input).                                                                 *)
C30_Terminates ==
    /\ <>(pc \in {"done", "fatal", "crashed"})
    /\ [](tries <= args.retries /\ reader <= Len(input))
    /\ [][reader' >= reader]_vars

\* C30 witness: a run has ended normally after five rows read, a failed
\* call and several batches
C30_Witness ==
    /\ pc = "done"
    /\ failed
    /\ reader = 5
    /\ Len(calls) >= 4

\* C30 witness: a run was aborted when all three attempts of a batch failed
C30_WitnessAborted ==
    /\ pc = "crashed"
    /\ args.retries = 3
    /\ tries = 3

====
